---- MODULE Spec2Model ----
(***************************************************************************)
(* Model of the Nox download engine (downloader.py), its progress store    *)
(* (_ler_json / _gravar_json) and the batch orchestrator's controller and  *)
(* workers (loop.py).                                                      *)
(*                                                                         *)
(* Three specifications share the module:                                  *)
(*   Spec      - repeated baixar_an invocations on ONE study               *)
(*   SpecLoop  - LoopController + the two worker_download threads          *)
(*   SpecStore - one ProgressRecord file under its two writers and crashes *)
(***************************************************************************)
EXTENDS Integers, FiniteSets, Sequences, TLC

\* ------------------------------------------------------------------------
\* Bounds
\* ------------------------------------------------------------------------
\* number of distinct SOPInstanceUIDs the archive may list for the study
NumSops == 2
\* number of baixar_an invocations explored for the study
MaxCalls == 2

\* longest list of studies handed to one worker_download thread
MaxList == 2
\* largest success limit (--limit) explored; 0 stands for "no limit"
MaxLimit == 2

\* number of distinct accession numbers the worklist may name
NumANs == 2
\* number of manual download threads the user may have running
MaxManual == 2

\* number of studies that may have a record or a directory at retention time
NumStudies == 4
\* largest retention limit (config.MAX_EXAMES) explored
MaxK == 1
\* most files of a study handed to the image selector
MaxFiles == 3
\* distinct series identifiers among those files
NumSeries == 2
\* threads of the download pool (config.DOWNLOAD_WORKERS)
DownloadWorkers == 1

Sops == 1..NumSops

\* ------------------------------------------------------------------------
\* State of the download engine (one study, identifier `an`)
\* ------------------------------------------------------------------------
VARIABLES
  cfg,        \* config.STORAGE_MODE, PIPELINE_STRICT, PIPELINE_ON_TRANSIENT
  record,     \* progresso/<an>.json
  files,      \* destino_base/<sop>.dcm : "none" | "empty" | "ok"
  dirExists,  \* destino_base exists
  pc,         \* position inside baixar_an
  manifest,   \* SOP ids of the manifest resolved last ({} before the first)
  historico,  \* local variable historico of baixar_an
  tasks,      \* faltantes_list / futures, in submission order
  result,     \* outcome of each future: "pending" | "ok" | "fail"
  metaRet,    \* meta_retornado of each future is not None
  cursor,     \* number of futures already consumed
  ret,        \* return value of the invocation
  resolved,   \* obter_metadata returned a manifest in this invocation
  posted,     \* worker_download already ran its post-processing
  calls,      \* invocations started so far
  \* history variables, read only by the properties
  startHist,  \* historico of the record when the invocation started
  stable,     \* every manifest resolved so far was the same
  removed,    \* files removed or emptied since the last invocation returned
  prev        \* how the previous invocation ended

dvars == <<cfg, record, files, dirExists, pc, manifest, historico, tasks,
           result, metaRet, cursor, ret, resolved, posted, calls,
           startHist, stable, removed, prev>>

\* State of the controller and the workers
VARIABLES
  stopEvent,     \* LoopController._stop_event
  pauseEvent,    \* LoopController._pause_event (set = running)
  successCount,  \* LoopController._success_count
  successLimit,  \* LoopController._success_limit, 0 for None
  lockHolder,    \* LoopController._lock: the worker holding it, or "free"
  listLen,       \* len(lista_ans) of each worker
  idx,           \* the worker's position i in its list (1-based)
  wpc,           \* the worker's position in worker_download
  ctlPc,         \* the controlling thread's position inside stop()
  stopCalled     \* history: stop() has been called

lvars == <<stopEvent, pauseEvent, successCount, successLimit, lockHolder,
           listLen, idx, wpc, ctlPc, stopCalled>>

\* State of one ProgressRecord file under its writers
VARIABLES
  jsonFile,     \* progresso/<an>.json : "absent" | "partial" | a content
  tmpFile,      \* progresso/<an>.json.tmp, likewise
  writer,       \* position of the process that is writing, or "idle"
  payload,      \* the content being written
  everPresent   \* history: a complete record has been on disk

svars == <<jsonFile, tmpFile, writer, payload, everPresent>>

\* State of the orchestrator's cycle, its worker threads and the manual
\* downloads
VARIABLES
  mpc,        \* position of loop.main in its cycle
  fetched,    \* lista_hbr / lista_hac of the last fetch
  alive,      \* number of live worker threads of each server
  tlist,      \* lista_ans each worker thread was started with
  tpos,       \* studies of its list the worker has finished
  tst,        \* the worker thread: "check" | "ready" | "inflight" | "dead"
  started,    \* history: the studies the worker thread called baixar_an on
  manual      \* AN each manual download thread is running baixar_an on, or 0

mvars == <<mpc, fetched, alive, tlist, tpos, tst, started, manual>>

\* State seen by the retention sweep (verificar_retencao_exames)
VARIABLES
  jsonMtime,   \* st_mtime of progresso/<an>.json per study, 0 when absent
  dirMtime,    \* st_mtime of OUTPUT_DICOM_DIR/<an> per study, 0 when absent
  maxExames,   \* config.MAX_EXAMES
  rpc,         \* "before" | "after" the sweep | "raised" out of it
  jsonMtime0,  \* history: jsonMtime when the sweep started
  dirMtime0    \* history: dirMtime when the sweep started

rvars == <<jsonMtime, dirMtime, maxExames, rpc, jsonMtime0, dirMtime0>>

\* State of the pipeline stage of one study (dispatch, report, worker)
VARIABLES
  ppc,         \* "start" | "returned" | "processed": where the study is
  jsStatus,    \* status field of the study's ProgressRecord
  respExists,  \* pipeline_response.json exists in the working directory
  baixarRet,   \* what baixar_an returned to the worker
  registered,  \* the worker registered the study as a success
  last         \* history: the most recent dispatch of the study

pvars == <<ppc, jsStatus, respExists, baixarRet, registered, last>>

\* State of one selection of the image to dispatch (_select_pipeline_dcm)
VARIABLES
  dicomFiles,  \* the study's files in path order, each with its DICOM tags
  selected     \* index in dicomFiles of the file returned, 0 before the call

cvars == <<dicomFiles, selected>>

\* State of the download pool of one invocation (ThreadPoolExecutor)
VARIABLES
  begun        \* the tasks whose _baixar_sop call has begun

xvars == <<begun>>

\* State of the calls of register_success, statement by statement
VARIABLES
  limitArg,    \* the success_limit given to the constructor: "none" or a number
  rsPc,        \* per worker: where its call of register_success stands
  rsLoad,      \* per worker: the counter value read by `+= 1`
  rsCount,     \* per worker: the local `count`
  rsCalls,     \* per worker: the calls it has made
  rsReturned   \* the values returned so far, in order of return

kvars == <<limitArg, rsPc, rsLoad, rsCount, rsCalls, rsReturned>>

\* State of one load of the record at the start of baixar_an
VARIABLES
  fileKind,    \* what progresso/<an>.json is on disk
  diskRecord,  \* the record a well-formed record file holds
  jTotal,      \* the manifest's total_instances
  lerRet,      \* what _ler_json returned
  jsLoaded,         \* baixar_an's js after the load
  jpc          \* "start" | "read" | "loaded" | "raised"

jvars == <<fileKind, diskRecord, jTotal, lerRet, jsLoaded, jpc>>

\* History of a runtime change of config.STORAGE_MODE
VARIABLES
  modeRead,    \* the mode before the change, "none" while there was none
  changedIn    \* the invocation that was in flight at the change

gvars == <<modeRead, changedIn>>

\* State of one parse of the server's study description
VARIABLES
  xmlSeries,   \* the Series elements of the Study element, in document order
  parsed,      \* the manifest _parse_xml returned
  qpc          \* "call" | "returned" | "raised"

qvars == <<xmlSeries, parsed, qpc>>

\* State of one call of _baixar_sop
VARIABLES
  sopPc,         \* "attempt" | "validate" | "place" | "except" | "next" | "returned"
  tentativa,     \* the loop variable, 1 or 2
  requestsSent,  \* requests.get calls made by this call
  backoffs,      \* time.sleep(0.5) calls made by this call
  destino,       \* the destination file: "none" | "empty" | "ok"
  sopRet,        \* the first element of the returned pair
  placedOk       \* history: the mode's placement ran and succeeded

bvars == <<sopPc, tentativa, requestsSent, backoffs, destino, sopRet, placedOk>>

\* History of the retention sweeps started from the GUI, and the --once flag
VARIABLES
  guiSwept,    \* on_max_change has called verificar_retencao_exames
  once         \* args.once of loop.main

hvars == <<guiSwept, once>>

\* what the actions of one part leave unchanged
restD == <<lvars, svars, mvars, rvars, pvars, cvars, xvars, kvars, jvars, gvars, qvars, bvars, hvars>>
restL == <<dvars, svars, mvars, rvars, pvars, cvars, xvars, kvars, jvars, gvars, qvars, bvars, hvars>>
restS == <<dvars, lvars, mvars, rvars, pvars, cvars, xvars, kvars, jvars, gvars, qvars, bvars, hvars>>
restM == <<dvars, svars, rvars, pvars, cvars, xvars, kvars, jvars, gvars, qvars, bvars, hvars>>
restR == <<lvars, svars, mvars, pvars, cvars, xvars, kvars, jvars, gvars, qvars, bvars, hvars>>
restP == <<lvars, svars, mvars, rvars, cvars, xvars, kvars, jvars, gvars, qvars, bvars, hvars>>
restC == <<dvars, lvars, svars, mvars, rvars, pvars, xvars, kvars, jvars, gvars, qvars, bvars, hvars>>
restX == <<dvars, lvars, svars, mvars, rvars, pvars, cvars, kvars, jvars, gvars, qvars, bvars, hvars>>
restK == <<dvars, svars, mvars, rvars, pvars, cvars, xvars, jvars, gvars, qvars, bvars, hvars>>
restJ == <<dvars, lvars, svars, mvars, rvars, pvars, cvars, xvars, kvars, gvars, qvars, bvars, hvars>>
restG == <<lvars, svars, mvars, rvars, pvars, cvars, xvars, kvars, jvars, qvars, bvars, hvars>>
restQ == <<dvars, lvars, svars, mvars, rvars, pvars, cvars, xvars, kvars, jvars, gvars, bvars, hvars>>
restB == <<dvars, lvars, svars, mvars, rvars, pvars, cvars, xvars, kvars, jvars, gvars, qvars, hvars>>
restH == <<dvars, lvars, svars, mvars, rvars, pvars, cvars, xvars, kvars, jvars, gvars, qvars, bvars>>

Modes == {"transient", "persistent", "pipeline"}

\* config.OSIRIX_INCOMING (config.py lines 192-204): no path configured,
\* which gives Path(""); a configured path that does not exist; a
\* configured directory
Incoming == {"unset", "missing", "present"}

NoRecord ==
  [exists |-> FALSE, total |-> 0, baixadas |-> 0, status |-> "none",
   historico |-> {}, patient |-> FALSE]

\* _ler_json: a missing record reads as the empty dict
LerJson(rec) == IF rec.exists THEN rec ELSE NoRecord

\* _iniciar_json: the record written on the first encounter of a study
IniciarJson(tot) ==
  [exists |-> TRUE, total |-> tot, baixadas |-> 0, status |-> "ativo",
   historico |-> {}, patient |-> FALSE]

\* the manifests obter_metadata may return: at least one image
Manifests == (SUBSET Sops) \ {{}}

\* the sequence of the elements of S in ascending order
RECURSIVE SortedSeq(_)
SortedSeq(S) ==
  IF S = {} THEN <<>>
  ELSE LET m == CHOOSE x \in S : \A y \in S : x <= y
       IN <<m>> \o SortedSeq(S \ {m})

NoPrev == [valid |-> FALSE, resolved |-> FALSE, ret |-> FALSE, allOk |-> FALSE]

InitD ==
  /\ cfg \in [mode : Modes, strict : BOOLEAN, onTransient : BOOLEAN,
               incoming : Incoming]
  /\ (cfg.mode # "transient" => cfg.onTransient = FALSE)
  /\ (cfg.mode # "transient" => cfg.incoming = "present")
  /\ record = NoRecord
  /\ files = [s \in Sops |-> "none"]
  /\ dirExists = FALSE
  /\ pc = "idle"
  /\ manifest = {}
  /\ historico = {}
  /\ tasks = <<>>
  /\ result = <<>>
  /\ metaRet = <<>>
  /\ cursor = 0
  /\ ret = FALSE
  /\ resolved = FALSE
  /\ posted = FALSE
  /\ calls = 0
  /\ startHist = {}
  /\ stable = TRUE
  /\ removed = {}
  /\ prev = NoPrev


\* ------------------------------------------------------------------------
\* baixar_an, step by step
\* ------------------------------------------------------------------------
total == Cardinality(manifest)

\* a variant that initialises the record and the directory before the query
ResolveFail_InitsRecord ==
  /\ pc = "idle" /\ calls < MaxCalls
  /\ calls' = calls + 1
  /\ startHist' = record.historico
  /\ record' = IF record.exists THEN [record EXCEPT !.status = "ativo"]
               ELSE [NoRecord EXCEPT !.exists = TRUE, !.status = "ativo"]
  /\ dirExists' = TRUE
  /\ pc' = "done" /\ ret' = FALSE /\ resolved' = FALSE
  /\ UNCHANGED <<cfg, files, manifest, historico, tasks, result, metaRet,
                 cursor, posted, stable, removed, prev>>
  /\ UNCHANGED restD

\* lines 555-570: obter_metadata raises (server unreachable, invalid server
\* name, malformed XML, zero images) and baixar_an returns False
ResolveFail ==
  /\ pc = "idle" /\ calls < MaxCalls
  /\ calls' = calls + 1
  /\ startHist' = record.historico
  /\ pc' = "done" /\ ret' = FALSE /\ resolved' = FALSE
  /\ UNCHANGED <<cfg, record, files, dirExists, manifest, historico, tasks,
                 result, metaRet, cursor, posted, stable, removed, prev>>
  /\ UNCHANGED restD

\* lines 555-582: obter_metadata returns a manifest with at least one image;
\* the record is loaded, or created; an existing record gets the manifest's
\* total and is written back
ResolveOk ==
  /\ pc = "idle" /\ calls < MaxCalls
  /\ \E m \in Manifests :
       /\ manifest' = m
       /\ stable' = (stable /\ (manifest = {} \/ manifest = m))
       /\ LET js == LerJson(record)
          IN record' = IF ~js.exists THEN IniciarJson(Cardinality(m))
                       ELSE [js EXCEPT !.total = Cardinality(m)]
  /\ calls' = calls + 1
  /\ startHist' = record.historico
  /\ pc' = "reconcile" /\ resolved' = TRUE
  /\ UNCHANGED <<cfg, files, dirExists, historico, tasks, result, metaRet,
                 cursor, ret, posted, removed, prev>>
  /\ UNCHANGED restD

\* a variant that revalidates against the disk in every mode
HistoricoValidado_AlwaysDisk(mode, hist, fs) ==
  {sop \in hist : fs[sop] = "ok"}

\* a variant that trusts the record in every mode
HistoricoValidado_AlwaysTrust(mode, hist, fs) == hist

\* lines 596-609: transient trusts the record, the other modes keep the IDs
\* whose file exists with non-zero size
HistoricoValidado(mode, hist, fs) ==
  IF mode = "transient" THEN hist
  ELSE {sop \in hist : fs[sop] = "ok"}

\* a variant that lists every manifest image
FaltantesList_All(m, hist) == SortedSeq(m)

\* lines 640-646: manifest images that are not in the reconciled historico
FaltantesList(m, hist) == SortedSeq(m \ hist)

\* shutil.rmtree(destino_base)
NoFiles == [s \in Sops |-> "none"]

\* lines 610-625: faltantes == 0, the already-complete shortcut
AlreadyComplete ==
  /\ pc = "reconcile"
  /\ LET hv == HistoricoValidado(cfg.mode, record.historico, files)
         faltantes == total - Cardinality(hv)
     IN /\ faltantes = 0
        /\ historico' = hv
        /\ record' = [record EXCEPT !.status = "completo", !.baixadas = total]
  /\ IF cfg.mode = "transient" /\ dirExists
       THEN dirExists' = FALSE /\ files' = NoFiles
       ELSE UNCHANGED <<dirExists, files>>
  /\ pc' = "done" /\ ret' = TRUE
  /\ UNCHANGED <<cfg, resolved, manifest, tasks, result, metaRet, cursor, posted, calls,
                 startHist, stable, removed, prev>>
  /\ UNCHANGED restD

\* lines 627-674: create the working directory and submit one task per
\* missing image
StartDownload ==
  /\ pc = "reconcile"
  /\ LET hv == HistoricoValidado(cfg.mode, record.historico, files)
         faltantes == total - Cardinality(hv)
         fl == FaltantesList(manifest, hv)
     IN /\ faltantes # 0
        /\ historico' = hv
        /\ tasks' = fl
        /\ result' = [i \in 1..Len(fl) |-> "pending"]
        /\ metaRet' = [i \in 1..Len(fl) |-> FALSE]
  /\ dirExists' = TRUE
  /\ cursor' = 0
  /\ pc' = "consume"
  /\ UNCHANGED <<cfg, resolved, record, files, manifest, ret, posted, calls, startHist, stable, removed, prev>>
  /\ UNCHANGED restD

\* ------------------------------------------------------------------------
\* _baixar_sop: one pool task
\* ------------------------------------------------------------------------
\* what the two attempts and the placement of one image can end in
\* line 198: config.OSIRIX_INCOMING and config.OSIRIX_INCOMING.exists() can
\* be true.  A Path is always truthy, and the unset inbox is Path(""), the
\* current directory, which exists.  A configured directory may have gone
\* by the time an image is placed; a missing one stays missing.
InboxUsable(c) == c.incoming \in {"unset", "present"}

\* line 198 can be false: the inbox path is configured and is not there
InboxUnusable(c) == c.incoming \in {"missing", "present"}

TaskOutcomes(c) ==
  {"http_fail", "empty_fail"}
    \cup (IF c.mode # "transient" THEN {"ok"} ELSE {})
    \cup (IF c.mode = "transient" /\ InboxUsable(c)
            THEN {"ok", "move_fail"} ELSE {})
    \cup (IF c.mode = "transient" /\ InboxUnusable(c)
            THEN {"no_incoming"} ELSE {})

\* the file left at destino when the task returns
FileAfter(mode, out) ==
  CASE out = "ok"          -> IF mode = "transient" THEN "none" ELSE "ok"
    [] out = "http_fail"   -> "none"
    [] out = "empty_fail"  -> "empty"
    [] out = "move_fail"   -> "ok"
    [] out = "no_incoming" -> "none"

\* a variant in which the pool task itself records its image
RunTask_WritesRecord(i) ==
  /\ pc = "consume"
  /\ i \in 1..Len(tasks)
  /\ result[i] = "pending"
  /\ \E out \in TaskOutcomes(cfg), metaOk \in BOOLEAN :
       /\ result' = [result EXCEPT ![i] = IF out = "ok" THEN "ok" ELSE "fail"]
       /\ files' = [files EXCEPT ![tasks[i]] = FileAfter(cfg.mode, out)]
       /\ metaRet' = [metaRet EXCEPT
                        ![i] = (i = 1 /\ ~record.patient /\ out = "ok" /\ metaOk)]
       /\ record' = IF out = "ok"
                      THEN [record EXCEPT
                              !.historico = @ \cup {tasks[i]},
                              !.baixadas = Cardinality(record.historico \cup {tasks[i]})]
                      ELSE record
  /\ UNCHANGED <<cfg, resolved, dirExists, pc, manifest, historico, tasks, cursor,
                 ret, posted, calls, startHist, stable, removed, prev>>
  /\ UNCHANGED restD

\* lines 155-243: a pending task finishes; only "ok" returns final_ok = True.
\* Task 0 extracts the summary fields when the record has none (line 670).
RunTask(i) ==
  /\ pc = "consume"
  /\ i \in 1..Len(tasks)
  /\ result[i] = "pending"
  /\ \E out \in TaskOutcomes(cfg), metaOk \in BOOLEAN :
       /\ result' = [result EXCEPT ![i] = IF out = "ok" THEN "ok" ELSE "fail"]
       /\ files' = [files EXCEPT ![tasks[i]] = FileAfter(cfg.mode, out)]
       /\ metaRet' = [metaRet EXCEPT
                        ![i] = (i = 1 /\ ~record.patient /\ out = "ok" /\ metaOk)]
  /\ UNCHANGED <<cfg, resolved, record, dirExists, pc, manifest, historico, tasks, cursor,
                 ret, posted, calls, startHist, stable, removed, prev>>
  /\ UNCHANGED restD

\* a variant that persists the count of the images new in this write
PersistRecord_Novos(js, hist, tot, meta) ==
  [js EXCEPT !.baixadas = Cardinality(hist \ js.historico), !.total = tot,
             !.status = "baixando", !.historico = hist,
             !.patient = (js.patient \/ meta)]

\* lines 706-713 / 730-731: the record persisted after one consumed result
PersistRecord(js, hist, tot, meta) ==
  [js EXCEPT !.baixadas = Cardinality(hist), !.total = tot,
             !.status = "baixando", !.historico = hist,
             !.patient = (js.patient \/ meta)]

\* lines 689-733: the consuming thread takes the next future in submission
\* order, updates historico and persists the record
Consume ==
  /\ pc = "consume"
  /\ cursor < Len(tasks)
  /\ result[cursor + 1] # "pending"
  /\ LET ok == result[cursor + 1] = "ok"
         sop == tasks[cursor + 1]
         hist == IF ok THEN historico \cup {sop} ELSE historico
     IN /\ historico' = hist
        /\ record' = PersistRecord(record, hist, total, ok /\ metaRet[cursor + 1])
  /\ cursor' = cursor + 1
  /\ UNCHANGED <<cfg, resolved, files, dirExists, pc, manifest, tasks, result, metaRet,
                 ret, posted, calls, startHist, stable, removed, prev>>
  /\ UNCHANGED restD

\* lines 801-812: what the dispatch and the report step leave as status;
\* they fail the study only under PIPELINE_STRICT
PipelineStatus(c) ==
  IF c.mode = "pipeline"
    THEN {"completo"} \cup
         (IF c.strict THEN {"pipeline_erro", "pipeline_laudo_erro"} ELSE {})
    ELSE {"completo"}

\* lines 741-816: every future consumed and len(historico) >= total
FinalComplete ==
  /\ pc = "consume"
  /\ cursor = Len(tasks)
  /\ Cardinality(historico) >= total
  /\ \E st \in PipelineStatus(cfg) :
       /\ record' = [record EXCEPT !.baixadas = Cardinality(historico),
                                   !.status = st, !.historico = historico]
       /\ ret' = (st = "completo")
  /\ IF cfg.mode = "transient"
       THEN dirExists' = FALSE /\ files' = NoFiles
       ELSE UNCHANGED <<dirExists, files>>
  /\ pc' = "done"
  /\ UNCHANGED <<cfg, resolved, manifest, historico, tasks, result, metaRet, cursor,
                 posted, calls, startHist, stable, removed, prev>>
  /\ UNCHANGED restD

\* lines 825-832: every future consumed and len(historico) < total
FinalIncomplete ==
  /\ pc = "consume"
  /\ cursor = Len(tasks)
  /\ Cardinality(historico) < total
  /\ IF cfg.mode = "transient"
       THEN dirExists' = FALSE /\ files' = NoFiles
       ELSE UNCHANGED <<dirExists, files>>
  /\ pc' = "done" /\ ret' = FALSE
  /\ UNCHANGED <<cfg, resolved, record, manifest, historico, tasks, result, metaRet,
                 cursor, posted, calls, startHist, stable, removed, prev>>
  /\ UNCHANGED restD

\* a variant that dispatches in every mode
PipelineAtivo_AnyMode(c) == TRUE

\* pipeline.pipeline_ativo_no_modo_atual
PipelineAtivo(c) ==
  c.mode = "pipeline" \/ (c.mode = "transient" /\ c.onTransient)

\* pipeline.processar_exame: the status it returns for the record js
ProcessarExameStatus(c, js) ==
  {IF js.exists THEN js.status ELSE "completo"}
    \cup (IF PipelineAtivo(c) /\ c.strict
            THEN {"pipeline_erro", "pipeline_laudo_erro"} ELSE {})

\* loop.py lines 156-167: after baixar_an returned True the worker re-reads
\* the record, runs the pipeline stage and persists a non-complete status
WorkerPost ==
  /\ pc = "done" /\ ret /\ ~posted
  /\ LET js == LerJson(record)
     IN \E st \in ProcessarExameStatus(cfg, js) :
          record' = IF st # "completo"
                      THEN [js EXCEPT !.exists = TRUE, !.status = st]
                      ELSE record
  /\ IF cfg.mode = "transient" /\ dirExists
       THEN dirExists' = FALSE /\ files' = NoFiles
       ELSE UNCHANGED <<dirExists, files>>
  /\ posted' = TRUE
  /\ UNCHANGED <<cfg, resolved, pc, manifest, historico, tasks, result, metaRet, cursor,
                 ret, calls, startHist, stable, removed, prev>>
  /\ UNCHANGED restD

\* every task of the invocation fetched and placed its image
AllOk == \A i \in 1..Len(tasks) : result[i] = "ok"

\* the invocation has returned; the study waits for its next invocation
Return ==
  /\ pc = "done"
  /\ pc' = "idle"
  /\ prev' = [valid |-> TRUE, resolved |-> resolved, ret |-> ret,
              allOk |-> AllOk]
  /\ removed' = {}
  /\ posted' = FALSE
  /\ historico' = {} /\ tasks' = <<>> /\ result' = <<>>
  /\ metaRet' = <<>> /\ cursor' = 0 /\ ret' = FALSE /\ resolved' = FALSE
  /\ UNCHANGED <<cfg, record, files, dirExists, manifest, calls, startHist,
                 stable>>
  /\ UNCHANGED restD

\* between invocations a delivered image file is deleted by hand, or is left
\* with zero size by a crash (persistent / pipeline: the files stay local)
RemoveFile(s) ==
  /\ pc = "idle" /\ calls < MaxCalls
  /\ cfg.mode # "transient"
  /\ files[s] = "ok"
  /\ \E left \in {"none", "empty"} : files' = [files EXCEPT ![s] = left]
  /\ removed' = removed \cup {s}
  /\ UNCHANGED <<cfg, resolved, record, dirExists, pc, manifest, historico, tasks, result,
                 metaRet, cursor, ret, posted, calls, startHist, stable, prev>>
  /\ UNCHANGED restD

NextD ==
  \/ ResolveFail
  \/ ResolveOk
  \/ AlreadyComplete
  \/ StartDownload
  \/ \E i \in 1..NumSops : RunTask(i)
  \/ Consume
  \/ FinalComplete
  \/ FinalIncomplete
  \/ WorkerPost
  \/ Return
  \/ \E s \in Sops : RemoveFile(s)



\* ------------------------------------------------------------------------
\* LoopController and the worker_download threads (loop.py)
\* ------------------------------------------------------------------------
Workers == {"HBR", "HAC"}

\* LoopController.__init__ (lines 66-72) and the two threads main starts
\* (lines 556-563); a server with an empty list gets no thread
InitL ==
  /\ stopEvent = FALSE
  /\ pauseEvent = TRUE
  /\ successCount = 0
  /\ successLimit \in 0..MaxLimit
  /\ lockHolder = "free"
  /\ listLen \in [Workers -> 0..MaxList]
  /\ idx = [w \in Workers |-> 1]
  /\ wpc = [w \in Workers |-> IF listLen[w] = 0 THEN "finished" ELSE "loop"]
  /\ ctlPc = "idle"
  /\ stopCalled = FALSE

\* lines 140-145: next iteration of the for loop and the should_stop check
WorkerCheckStop(w) ==
  /\ wpc[w] = "loop"
  /\ wpc' = [wpc EXCEPT ![w] =
               IF idx[w] > listLen[w] \/ stopEvent THEN "finished" ELSE "wait"]
  /\ UNCHANGED <<stopEvent, pauseEvent, successCount, successLimit, lockHolder,
                 listLen, idx, ctlPc, stopCalled>>
  /\ UNCHANGED restL

\* line 113 (called from line 147): the while condition of wait_if_paused;
\* with the pause event set it returns True and the worker starts baixar_an
WaitIfPausedTest(w) ==
  /\ wpc[w] = "wait"
  /\ wpc' = [wpc EXCEPT ![w] = IF pauseEvent THEN "baixar" ELSE "wait_stop"]
  /\ UNCHANGED <<stopEvent, pauseEvent, successCount, successLimit, lockHolder,
                 listLen, idx, ctlPc, stopCalled>>
  /\ UNCHANGED restL

\* a variant of the wait loop that does not look at should_stop
WaitIfPausedStop_NoStop(w) ==
  /\ wpc[w] = "wait_stop"
  /\ wpc' = [wpc EXCEPT ![w] = "sleep"]
  /\ UNCHANGED <<stopEvent, pauseEvent, successCount, successLimit, lockHolder,
                 listLen, idx, ctlPc, stopCalled>>
  /\ UNCHANGED restL

\* lines 114-115: inside the loop, should_stop makes it return False and the
\* worker breaks
WaitIfPausedStop(w) ==
  /\ wpc[w] = "wait_stop"
  /\ wpc' = [wpc EXCEPT ![w] = IF stopEvent THEN "finished" ELSE "sleep"]
  /\ UNCHANGED <<stopEvent, pauseEvent, successCount, successLimit, lockHolder,
                 listLen, idx, ctlPc, stopCalled>>
  /\ UNCHANGED restL

\* line 116: time.sleep(0.5), then the while condition again
WaitIfPausedSleep(w) ==
  /\ wpc[w] = "sleep"
  /\ wpc' = [wpc EXCEPT ![w] = "wait"]
  /\ UNCHANGED <<stopEvent, pauseEvent, successCount, successLimit, lockHolder,
                 listLen, idx, ctlPc, stopCalled>>
  /\ UNCHANGED restL

\* lines 151-185: the study in flight ends. ok and pipe_ok lead to
\* register_success; a failed download (erros += 1) or a failed pipeline
\* stage lead to the next iteration; an exception leads to the except clause
WorkerStudyEnds(w) ==
  /\ wpc[w] = "baixar"
  /\ \E outcome \in {"success", "incomplete", "pipe_fail", "exception"} :
       CASE outcome = "success" ->
              wpc' = [wpc EXCEPT ![w] = "register"] /\ idx' = idx
         [] outcome = "exception" ->
              wpc' = [wpc EXCEPT ![w] = "except"] /\ idx' = idx
         [] OTHER ->
              /\ wpc' = [wpc EXCEPT ![w] = "loop"]
              /\ idx' = [idx EXCEPT ![w] = idx[w] + 1]
  /\ UNCHANGED <<stopEvent, pauseEvent, successCount, successLimit, lockHolder,
                 listLen, ctlPc, stopCalled>>
  /\ UNCHANGED restL

\* a variant whose except clause counts the study as a success
WorkerExcept_Registers(w) ==
  /\ wpc[w] = "except"
  /\ wpc' = [wpc EXCEPT ![w] = "register"]
  /\ UNCHANGED <<stopEvent, pauseEvent, successCount, successLimit, lockHolder,
                 listLen, idx, ctlPc, stopCalled>>
  /\ UNCHANGED restL

\* lines 186-190: except Exception: a message containing "interpreter
\* shutdown" breaks out of the loop; any other exception is logged, counted
\* in erros, and the loop goes on with the next study
WorkerExcept(w) ==
  /\ wpc[w] = "except"
  /\ \E shutdown \in BOOLEAN :
       IF shutdown
         THEN wpc' = [wpc EXCEPT ![w] = "finished"] /\ idx' = idx
         ELSE /\ wpc' = [wpc EXCEPT ![w] = "loop"]
              /\ idx' = [idx EXCEPT ![w] = idx[w] + 1]
  /\ UNCHANGED <<stopEvent, pauseEvent, successCount, successLimit, lockHolder,
                 listLen, ctlPc, stopCalled>>
  /\ UNCHANGED restL

\* a variant that compares with > instead of >=
Reached_Strict(limit, count) == limit # 0 /\ count > limit

\* line 101: reached = bool(limit and count >= limit)
Reached(limit, count) == limit # 0 /\ count >= limit

\* lines 97-103: under the lock, count the success and, at the limit, set the
\* stop event
RegisterSuccess(w) ==
  /\ wpc[w] = "register"
  /\ lockHolder = "free"
  /\ successCount' = successCount + 1
  /\ IF Reached(successLimit, successCount + 1)
       THEN /\ stopEvent' = TRUE
            /\ lockHolder' = w
            /\ wpc' = [wpc EXCEPT ![w] = "reg_pause"]
            /\ idx' = idx
       ELSE /\ wpc' = [wpc EXCEPT ![w] = "loop"]
            /\ idx' = [idx EXCEPT ![w] = idx[w] + 1]
            /\ UNCHANGED <<stopEvent, lockHolder>>
  /\ UNCHANGED <<pauseEvent, successLimit, listLen, ctlPc, stopCalled>>
  /\ UNCHANGED restL

\* lines 104-105 and 175-177: still under the lock, set the pause event;
\* the worker then leaves its loop
RegisterSuccessRelease(w) ==
  /\ wpc[w] = "reg_pause"
  /\ pauseEvent' = TRUE
  /\ lockHolder' = "free"
  /\ wpc' = [wpc EXCEPT ![w] = "finished"]
  /\ UNCHANGED <<stopEvent, successCount, successLimit, listLen, idx, ctlPc,
                 stopCalled>>
  /\ UNCHANGED restL

\* line 76: stop() sets the stop event ...
StopBegin ==
  /\ ctlPc = "idle"
  /\ stopEvent' = TRUE
  /\ stopCalled' = TRUE
  /\ ctlPc' = "stopping"
  /\ UNCHANGED <<pauseEvent, successCount, successLimit, lockHolder, listLen,
                 idx, wpc>>
  /\ UNCHANGED restL

\* line 78: ... and then the pause event
StopEnd ==
  /\ ctlPc = "stopping"
  /\ pauseEvent' = TRUE
  /\ ctlPc' = "idle"
  /\ UNCHANGED <<stopEvent, successCount, successLimit, lockHolder, listLen,
                 idx, wpc, stopCalled>>
  /\ UNCHANGED restL

\* lines 80-82: pause()
Pause ==
  /\ ctlPc = "idle"
  /\ pauseEvent
  /\ pauseEvent' = FALSE
  /\ UNCHANGED <<stopEvent, successCount, successLimit, lockHolder, listLen,
                 idx, wpc, ctlPc, stopCalled>>
  /\ UNCHANGED restL

\* lines 84-86: resume()
Resume ==
  /\ ctlPc = "idle"
  /\ ~pauseEvent
  /\ pauseEvent' = TRUE
  /\ UNCHANGED <<stopEvent, successCount, successLimit, lockHolder, listLen,
                 idx, wpc, ctlPc, stopCalled>>
  /\ UNCHANGED restL

NextL ==
  \/ \E w \in Workers : WorkerCheckStop(w)
  \/ \E w \in Workers : WaitIfPausedTest(w)
  \/ \E w \in Workers : WaitIfPausedStop(w)
  \/ \E w \in Workers : WaitIfPausedSleep(w)
  \/ \E w \in Workers : WorkerStudyEnds(w)
  \/ \E w \in Workers : WorkerExcept(w)
  \/ \E w \in Workers : RegisterSuccess(w)
  \/ \E w \in Workers : RegisterSuccessRelease(w)
  \/ StopBegin
  \/ StopEnd
  \/ Pause
  \/ Resume

\* ------------------------------------------------------------------------
\* The ProgressRecord file and its writers (downloader._gravar_json,
\* pipeline.main)
\* ------------------------------------------------------------------------
\* what a record file may say, told apart by its status field
Contents == {"ativo", "baixando", "completo", "pipeline_erro",
             "pipeline_laudo_erro"}

\* the statuses pipeline.main writes: final_status != "completo"
MainStatuses == {"pipeline_erro", "pipeline_laudo_erro"}

\* _gravar_json line 122: tmp.write_text opens (creates, truncates) the
\* temporary sibling
GravarJsonOpen(d) ==
  /\ writer = "idle"
  /\ writer' = "gravar_write"
  /\ payload' = d
  /\ tmpFile' = "partial"
  /\ UNCHANGED <<jsonFile, everPresent>>
  /\ UNCHANGED restS

\* line 122: the text is fully written to the temporary sibling
GravarJsonWritten ==
  /\ writer = "gravar_write"
  /\ tmpFile' = payload
  /\ writer' = "gravar_replace"
  /\ UNCHANGED <<jsonFile, payload, everPresent>>
  /\ UNCHANGED restS

\* line 123: os.replace(tmp, final)
GravarJsonReplace ==
  /\ writer = "gravar_replace"
  /\ jsonFile' = tmpFile
  /\ tmpFile' = "absent"
  /\ writer' = "idle"
  /\ everPresent' = TRUE
  /\ UNCHANGED payload
  /\ UNCHANGED restS

\* lines 124-125: an exception of either call is logged and swallowed
GravarJsonError ==
  /\ writer \in {"gravar_write", "gravar_replace"}
  /\ writer' = "idle"
  /\ UNCHANGED <<jsonFile, tmpFile, payload, everPresent>>
  /\ UNCHANGED restS

\* pipeline.main lines 457-461: json_file.write_text opens (creates,
\* truncates) the record file itself
PipelineMainOpen(d) ==
  /\ writer = "idle"
  /\ writer' = "main_write"
  /\ payload' = d
  /\ jsonFile' = "partial"
  /\ UNCHANGED <<tmpFile, everPresent>>
  /\ UNCHANGED restS

\* line 461: the text is fully written to the record file
PipelineMainWritten ==
  /\ writer = "main_write"
  /\ jsonFile' = payload
  /\ writer' = "idle"
  /\ everPresent' = TRUE
  /\ UNCHANGED <<tmpFile, payload>>
  /\ UNCHANGED restS

\* the writing process is killed; the files stay as they are
Crash ==
  /\ writer # "idle"
  /\ writer' = "idle"
  /\ UNCHANGED <<jsonFile, tmpFile, payload, everPresent>>
  /\ UNCHANGED restS

NextS ==
  \/ \E d \in Contents : GravarJsonOpen(d)
  \/ GravarJsonWritten
  \/ GravarJsonReplace
  \/ GravarJsonError
  \/ \E d \in MainStatuses : PipelineMainOpen(d)
  \/ PipelineMainWritten
  \/ Crash

\* ------------------------------------------------------------------------
\* The orchestrator's cycle (loop.main), the worker threads as it sees them
\* (worker_download) and manual downloads (nox.run_manual_download)
\* ------------------------------------------------------------------------
ANs == 1..NumANs

\* the duplicate-free lists of at most n accession numbers
\* (fetch_varios_arquivos ends with list(dict.fromkeys(...)))
Lists(n) ==
  {q \in UNION {[1..k -> ANs] : k \in 0..n} :
     \A i, j \in 1..Len(q) : i # j => q[i] # q[j]}

\* loop.py lines 490-493: the while condition; wait_if_paused returns at once
\* while the run is not paused
MainWhile ==
  /\ mpc = "while"
  /\ mpc' = IF stopEvent THEN "join" ELSE "check_alive"
  /\ UNCHANGED <<fetched, alive, tlist, tpos, tst, started, manual>>
  /\ UNCHANGED <<lvars, restM>>

\* a variant that goes on to fetch whether or not a worker is alive
MainCheckAlive_Ignore ==
  /\ mpc = "check_alive"
  /\ mpc' = "fetch"
  /\ UNCHANGED <<fetched, alive, tlist, tpos, tst, started, manual>>
  /\ UNCHANGED <<lvars, restM>>

\* lines 495-501: with a worker thread alive, sleep and start over
MainCheckAlive ==
  /\ mpc = "check_alive"
  /\ mpc' = IF \E w \in Workers : alive[w] > 0 THEN "while" ELSE "fetch"
  /\ UNCHANGED <<fetched, alive, tlist, tpos, tst, started, manual>>
  /\ UNCHANGED <<lvars, restM>>

\* lines 534-552: the fetch raises (back to the loop head) or returns the two
\* lists; with both empty the cycle ends. An accession number is listed
\* under one server.
MainFetch ==
  /\ mpc = "fetch"
  /\ \/ mpc' = "except" /\ fetched' = fetched
     \/ \E h, c \in Lists(MaxList) :
          /\ \A i \in 1..Len(h), j \in 1..Len(c) : h[i] # c[j]
          /\ fetched' = [w \in Workers |-> IF w = "HBR" THEN h ELSE c]
          /\ mpc' = IF h = <<>> /\ c = <<>>
                      THEN IF once THEN "exited" ELSE "while"
                      ELSE "start_hbr"
  /\ UNCHANGED <<alive, tlist, tpos, tst, started, manual>>
  /\ UNCHANGED <<lvars, restM>>

StartPc(w) == IF w = "HBR" THEN "start_hbr" ELSE "start_hac"

\* lines 556-562: a server with a non-empty list gets a new thread, HBR
\* first; main does not read the list again before the next fetch
MainStartThread(w) ==
  /\ mpc = StartPc(w)
  /\ mpc' = IF w = "HBR" THEN "start_hac"
            ELSE IF once THEN "join" ELSE "while"
  /\ IF fetched[w] # <<>>
       THEN /\ alive' = [alive EXCEPT ![w] = alive[w] + 1]
            /\ tlist' = [tlist EXCEPT ![w] = fetched[w]]
            /\ tpos' = [tpos EXCEPT ![w] = 0]
            /\ tst' = [tst EXCEPT ![w] = "check"]
            /\ started' = [started EXCEPT ![w] = <<>>]
       ELSE UNCHANGED <<alive, tlist, tpos, tst, started>>
  /\ fetched' = [fetched EXCEPT ![w] = <<>>]
  /\ UNCHANGED manual
  /\ UNCHANGED <<lvars, restM>>

\* lines 587-598: after the loop ended on the stop condition, main joins the
\* worker threads and returns
\* a variant that leaves the loop whether or not --once is set
MainFetchExcept_Exits ==
  /\ mpc = "except"
  /\ mpc' = "exited"
  /\ UNCHANGED <<fetched, alive, tlist, tpos, tst, started, manual>>
  /\ UNCHANGED <<lvars, restM>>

\* loop.main lines 537-543: the fetch raised; the error is logged, and the
\* loop is left with --once, or else sleeps LOOP_INTERVAL and continues with
\* the next pass of the while
MainFetchExcept ==
  /\ mpc = "except"
  /\ mpc' = IF once THEN "exited" ELSE "while"
  /\ UNCHANGED <<fetched, alive, tlist, tpos, tst, started, manual>>
  /\ UNCHANGED <<lvars, restM>>

MainJoin ==
  /\ mpc = "join"
  /\ \A w \in Workers : alive[w] = 0
  /\ mpc' = "exited"
  /\ UNCHANGED <<fetched, alive, tlist, tpos, tst, started, manual>>
  /\ UNCHANGED <<lvars, restM>>

\* worker_download lines 140-149 and 191: end of the list or stop requested
\* ends the thread, and its locals with it; otherwise the next study is due
ThreadCheck(w) ==
  /\ tst[w] = "check"
  /\ IF tpos[w] = Len(tlist[w]) \/ stopEvent
       THEN /\ tst' = [tst EXCEPT ![w] = "dead"]
            /\ alive' = [alive EXCEPT ![w] = alive[w] - 1]
            /\ tlist' = [tlist EXCEPT ![w] = <<>>]
            /\ tpos' = [tpos EXCEPT ![w] = 0]
            /\ started' = [started EXCEPT ![w] = <<>>]
       ELSE /\ tst' = [tst EXCEPT ![w] = "ready"]
            /\ UNCHANGED <<alive, tlist, tpos, started>>
  /\ UNCHANGED <<mpc, fetched, manual>>
  /\ UNCHANGED <<lvars, restM>>

\* lines 151-154: baixar_an is called on the list's next study
ThreadBegin(w) ==
  /\ tst[w] = "ready"
  /\ tst' = [tst EXCEPT ![w] = "inflight"]
  /\ started' = [started EXCEPT ![w] = Append(@, tlist[w][tpos[w] + 1])]
  /\ UNCHANGED <<mpc, fetched, alive, tlist, tpos, manual>>
  /\ UNCHANGED <<lvars, restM>>

\* lines 154-190: the study ends, in success, failure or exception, and the
\* for loop moves on; an exception naming the interpreter shutdown breaks
\* out of the loop and ends the thread
ThreadStudyEnds(w) ==
  /\ tst[w] = "inflight"
  /\ \/ /\ tst' = [tst EXCEPT ![w] = "check"]
        /\ tpos' = [tpos EXCEPT ![w] = tpos[w] + 1]
        /\ UNCHANGED <<alive, tlist, started>>
     \/ /\ tst' = [tst EXCEPT ![w] = "dead"]
        /\ alive' = [alive EXCEPT ![w] = alive[w] - 1]
        /\ tlist' = [tlist EXCEPT ![w] = <<>>]
        /\ tpos' = [tpos EXCEPT ![w] = 0]
        /\ started' = [started EXCEPT ![w] = <<>>]
  /\ UNCHANGED <<mpc, fetched, manual>>
  /\ UNCHANGED <<lvars, restM>>

\* nox.py lines 373-389: the download button starts a thread that runs
\* baixar_an on the accession number typed in; the thread takes the first
\* free slot, the slots being interchangeable
ManualStart(k, an) ==
  /\ manual[k] = 0
  /\ \A j \in 1..(k - 1) : manual[j] # 0
  /\ manual' = [manual EXCEPT ![k] = an]
  /\ UNCHANGED <<mpc, fetched, alive, tlist, tpos, tst, started>>
  /\ UNCHANGED <<lvars, restM>>

\* nox.py lines 362-371: the manual download returns; the threads started
\* after it move up one slot
ManualEnds(k) ==
  /\ manual[k] # 0
  /\ manual' = [j \in 1..MaxManual |->
                  IF j < k THEN manual[j]
                  ELSE IF j < MaxManual THEN manual[j + 1] ELSE 0]
  /\ UNCHANGED <<mpc, fetched, alive, tlist, tpos, tst, started>>
  /\ UNCHANGED <<lvars, restM>>

\* nox.py lines 465-479: moving the "Manter" slider sets config.MAX_EXAMES
\* and calls verificar_retencao_exames on the GUI's thread, whatever the
\* download threads are doing
OnMaxChange ==
  /\ ~guiSwept
  /\ guiSwept' = TRUE
  /\ UNCHANGED once
  /\ UNCHANGED restH

NextM ==
  \/ OnMaxChange
  \/ MainWhile
  \/ MainCheckAlive
  \/ MainFetch
  \/ MainFetchExcept
  \/ \E w \in Workers : MainStartThread(w)
  \/ MainJoin
  \/ \E w \in Workers : ThreadCheck(w)
  \/ \E w \in Workers : ThreadBegin(w)
  \/ \E w \in Workers : ThreadStudyEnds(w)
  \/ \E k \in 1..MaxManual, an \in ANs : ManualStart(k, an)
  \/ \E k \in 1..MaxManual : ManualEnds(k)
  \/ StopBegin
  \/ StopEnd

\* ------------------------------------------------------------------------
\* The retention sweep (loop.verificar_retencao_exames)
\* ------------------------------------------------------------------------
Studies == 1..NumStudies

\* the studies whose file or directory exists
Present(mt) == {a \in Studies : mt[a] # 0}

\* modification times of the files or directories that exist, all distinct
\* (only their order matters: they are numbered from the oldest, 1)
Stamps ==
  {mt \in [Studies -> 0..NumStudies] :
     /\ \A a, b \in Present(mt) : a # b => mt[a] # mt[b]
     /\ \A a \in Present(mt) : mt[a] <= Cardinality(Present(mt))}

\* the records that exist, the studies being numbered by the age of their
\* record (nothing in the sweep depends on the name of a study)
RecordStamps ==
  {mt \in Stamps : \A a, b \in Present(mt) : a < b => mt[a] < mt[b]}

InitR ==
  /\ jsonMtime \in RecordStamps
  /\ dirMtime \in Stamps
  /\ maxExames \in 1..MaxK
  /\ rpc = "before"
  /\ jsonMtime0 = jsonMtime
  /\ dirMtime0 = dirMtime

RECURSIVE SortedByMtime(_, _)
\* sorted(paths, key=lambda x: x.stat().st_mtime)
SortedByMtime(S, mt) ==
  IF S = {} THEN <<>>
  ELSE LET a == CHOOSE x \in S : \A y \in S : mt[x] <= mt[y]
       IN <<a>> \o SortedByMtime(S \ {a}, mt)

\* a variant that drops the newest entries
Excedentes_Newest(sorted, limite) ==
  LET excesso == Len(sorted) - limite
  IN IF excesso > 0
       THEN {sorted[i] : i \in (Len(sorted) - excesso + 1)..Len(sorted)}
       ELSE {}

\* lines 246-251 and 271-278: excesso = total - limite and the slice
\* [:excesso] of the sorted list
Excedentes(sorted, limite) ==
  LET excesso == Len(sorted) - limite
  IN IF excesso > 0 THEN {sorted[i] : i \in 1..excesso} ELSE {}

Without(mt, gone) == [a \in Studies |-> IF a \in gone THEN 0 ELSE mt[a]]

\* a variant without the sweep of the records left without a directory
VerificarRetencao_NoOrphans ==
  /\ rpc = "before"
  /\ rpc' = "after"
  /\ IF cfg.mode = "transient"
       THEN LET jsons == SortedByMtime(Present(jsonMtime), jsonMtime)
            IN /\ jsonMtime' = Without(jsonMtime, Excedentes(jsons, maxExames))
               /\ dirMtime' = dirMtime
       ELSE LET pastas == SortedByMtime(Present(dirMtime), dirMtime)
                gone == Excedentes(pastas, maxExames)
            IN /\ dirMtime' = Without(dirMtime, gone)
               /\ jsonMtime' = Without(jsonMtime, gone)
  /\ UNCHANGED <<maxExames, jsonMtime0, dirMtime0>>
  /\ UNCHANGED <<dvars, restR>>

\* lines 229-311: in transient mode the oldest records in excess are removed;
\* otherwise the oldest directories in excess are removed with their records,
\* and then every record left without a directory
VerificarRetencao ==
  /\ rpc = "before"
  /\ rpc' = "after"
  /\ IF cfg.mode = "transient"
       THEN LET jsons == SortedByMtime(Present(jsonMtime), jsonMtime)
            IN /\ jsonMtime' = Without(jsonMtime, Excedentes(jsons, maxExames))
               /\ dirMtime' = dirMtime
       ELSE LET pastas == SortedByMtime(Present(dirMtime), dirMtime)
                gone == Excedentes(pastas, maxExames)
                dirs == Without(dirMtime, gone)
                orphans == {a \in Studies : dirs[a] = 0}
            IN /\ dirMtime' = dirs
               /\ jsonMtime' = Without(jsonMtime, gone \cup orphans)
  /\ UNCHANGED <<maxExames, jsonMtime0, dirMtime0>>
  /\ UNCHANGED <<dvars, restR>>

\* lines 242-245 and 262-265: an entry listed by glob or iterdir is removed
\* by someone else (another sweep, the user) before the sort key stats it;
\* stat raises FileNotFoundError outside every try of the function, and
\* main (line 532) catches KeyboardInterrupt only
VerificarRetencaoRaises ==
  /\ rpc = "before"
  /\ \E a \in Studies :
       IF cfg.mode = "transient"
         THEN /\ jsonMtime[a] # 0
              /\ jsonMtime' = Without(jsonMtime, {a})
              /\ dirMtime' = dirMtime
         ELSE /\ dirMtime[a] # 0
              /\ dirMtime' = Without(dirMtime, {a})
              /\ jsonMtime' = jsonMtime
  /\ rpc' = "raised"
  /\ UNCHANGED <<maxExames, jsonMtime0, dirMtime0>>
  /\ UNCHANGED <<dvars, restR>>

NextR ==
  \/ VerificarRetencao
  \/ VerificarRetencaoRaises

\* ------------------------------------------------------------------------
\* The pipeline stage: dispatch, report, and the worker around them
\* ------------------------------------------------------------------------
Formats == {"json", "multipart_single_file", "multipart_optimized_image"}

\* what a dispatch finds: the [PIPELINE] settings, the files of the working
\* directory, and what the endpoint does with the request
DispatchInputs ==
  [enabled : BOOLEAN, url : BOOLEAN, cockpit : {"absent", "unreadable", "ok"},
   filtered : BOOLEAN, format : Formats, dicoms : BOOLEAN, age : BOOLEAN,
   optimized : BOOLEAN, http : {"2xx", "non2xx", "transport"}]

\* what the report step finds: PIPELINE_AUTO_WRITE_REPORT, and whether the
\* identifiers and the two helper scripts are in order
LaudoInputs == [autoWrite : BOOLEAN, stepsOk : BOOLEAN]

NoDispatch ==
  [site |-> "none", attempted |-> FALSE, http |-> "none", ok |-> TRUE,
   hasResponse |-> FALSE, wrote |-> FALSE, before |-> FALSE, after |-> FALSE,
   ready |-> FALSE]

\* return True, False: disabled, no api_url, no metadata_cockpit.json, exam
\* outside the filter, no PatientAge
DispatchSkipped ==
  [attempted |-> FALSE, http |-> "none", ok |-> TRUE, hasResponse |-> FALSE,
   wrote |-> FALSE]

\* a variant that never fails the study
DispatchFailed_Lenient(c) ==
  [attempted |-> FALSE, http |-> "none", ok |-> TRUE, hasResponse |-> FALSE,
   wrote |-> FALSE]

\* return (not PIPELINE_STRICT, False) before any request is made
DispatchFailed(c) ==
  [attempted |-> FALSE, http |-> "none", ok |-> ~c.strict,
   hasResponse |-> FALSE, wrote |-> FALSE]

\* a variant that writes the exchange only after raise_for_status passed
Posted_TraceOnSuccess(c, http) ==
  IF http = "2xx"
    THEN [attempted |-> TRUE, http |-> http, ok |-> TRUE,
          hasResponse |-> TRUE, wrote |-> TRUE]
    ELSE [DispatchFailed(c) EXCEPT !.attempted = TRUE, !.http = http]

\* pipeline.py lines 170-192, 226-246, 263-283: requests.post raises on a
\* transport failure or timeout; a response of any status is written to
\* pipeline_response.json before raise_for_status turns a non-2xx one into
\* an exception; every exception returns (not PIPELINE_STRICT, False)
Posted(c, http) ==
  IF http = "2xx"
    THEN [attempted |-> TRUE, http |-> http, ok |-> TRUE,
          hasResponse |-> TRUE, wrote |-> TRUE]
    ELSE [DispatchFailed(c) EXCEPT !.attempted = TRUE, !.http = http,
                                   !.wrote = (http = "non2xx")]

\* pipeline.enviar_para_pipeline_api (site "worker", lines 58-283) and its
\* copy downloader._enviar_para_pipeline_api (site "baixar_an", lines
\* 268-458), which has no multipart_optimized_image branch and posts JSON
EnviarParaPipelineApi(c, in, site) ==
  IF ~in.enabled \/ ~in.url \/ in.cockpit = "absent" THEN DispatchSkipped
  ELSE IF in.cockpit = "unreadable" THEN DispatchFailed(c)
  ELSE IF ~in.filtered THEN DispatchSkipped
  ELSE IF in.format = "multipart_single_file"
    THEN IF ~in.dicoms THEN DispatchFailed(c)
         ELSE IF ~in.age THEN DispatchSkipped
         ELSE Posted(c, in.http)
  ELSE IF in.format = "multipart_optimized_image" /\ site = "worker"
    THEN IF ~in.dicoms \/ ~in.optimized THEN DispatchFailed(c)
         ELSE Posted(c, in.http)
  ELSE Posted(c, in.http)

\* pipeline.gravar_laudo_do_pipeline: every failure returns not PIPELINE_STRICT
GravarLaudoDoPipeline(c, respFile, g) ==
  IF ~g.autoWrite THEN TRUE
  ELSE IF ~respFile \/ ~g.stepsOk THEN ~c.strict
  ELSE TRUE

\* the settings and files, other than metadata_cockpit.json, that a dispatch
\* needs to reach its request: enabled, api_url, the name filter, and the
\* image and PatientAge that the multipart formats require
Ready(in) ==
  /\ in.enabled /\ in.url /\ in.filtered
  /\ in.dicoms /\ in.age /\ in.optimized

\* the dispatch d as it is remembered: where it ran, whether its inputs were
\* ready, and the file around it
Remember(d, in, site, before) ==
  [site |-> site, attempted |-> d.attempted, http |-> d.http, ok |-> d.ok,
   hasResponse |-> d.hasResponse, wrote |-> d.wrote, before |-> before,
   after |-> (before \/ d.wrote), ready |-> Ready(in)]

\* pipeline.processar_exame lines 400-418 and downloader.baixar_an lines
\* 801-816: the status and the verdict after the dispatch d and the report
StageOutcome(c, st, d, g, respFile) ==
  IF ~d.ok THEN [sucesso |-> FALSE, status |-> "pipeline_erro"]
  ELSE IF d.hasResponse /\ ~GravarLaudoDoPipeline(c, respFile, g)
    THEN [sucesso |-> FALSE, status |-> "pipeline_laudo_erro"]
  ELSE [sucesso |-> TRUE, status |-> st]

InitP ==
  /\ ppc = "start" /\ jsStatus = "none" /\ respExists = FALSE
  /\ baixarRet = FALSE /\ registered = FALSE /\ last = NoDispatch

\* downloader.baixar_an lines 613-625: the study is already complete; the
\* record is rewritten as completo and nothing is dispatched
BaixarAnShortcut ==
  /\ ppc = "start"
  /\ jsStatus # "none"
  /\ jsStatus' = "completo"
  /\ respExists' = (respExists /\ cfg.mode # "transient")
  /\ baixarRet' = TRUE
  /\ ppc' = "returned"
  /\ UNCHANGED <<registered, last>>
  /\ UNCHANGED <<dvars, restP>>

\* downloader.baixar_an lines 741-816: the last image arrived; the record is
\* written as completo, the transient directory is removed, and in pipeline
\* mode the study is dispatched and its report written
BaixarAnCompletes ==
  /\ ppc = "start"
  /\ ppc' = "returned"
  /\ IF cfg.mode = "pipeline"
       THEN \E in \in DispatchInputs, g \in LaudoInputs :
              LET d == EnviarParaPipelineApi(cfg, in, "baixar_an")
                  file == respExists \/ d.wrote
                  o == StageOutcome(cfg, "completo", d, g, file)
              IN /\ jsStatus' = o.status
                 /\ baixarRet' = o.sucesso
                 /\ respExists' = file
                 /\ last' = Remember(d, in, "baixar_an", respExists)
       ELSE /\ jsStatus' = "completo"
            /\ baixarRet' = TRUE
            /\ respExists' = (respExists /\ cfg.mode # "transient")
            /\ last' = last
  /\ UNCHANGED registered
  /\ UNCHANGED <<dvars, restP>>

\* downloader.baixar_an lines 825-832: the study stays incomplete
BaixarAnIncomplete ==
  /\ ppc = "start"
  /\ ppc' = "returned"
  /\ baixarRet' = FALSE
  /\ jsStatus' = "baixando"
  /\ respExists' = (respExists /\ cfg.mode # "transient")
  /\ UNCHANGED <<registered, last>>
  /\ UNCHANGED <<dvars, restP>>

\* loop.worker_download lines 154-180: after baixar_an returned True the
\* worker runs processar_exame on the re-read record, persists a status other
\* than completo, removes the transient directory and registers the success
\* when the stage succeeded; after False it counts an error.  In transient
\* mode baixar_an has removed the working directory, so the dispatch finds
\* no metadata_cockpit.json
WorkerAfterBaixarAn ==
  /\ ppc = "returned"
  /\ ppc' = "processed"
  /\ IF ~baixarRet
       THEN /\ registered' = FALSE
            /\ UNCHANGED <<jsStatus, respExists, last>>
       ELSE IF ~PipelineAtivo(cfg)
         THEN /\ registered' = TRUE
              /\ respExists' = (respExists /\ cfg.mode # "transient")
              /\ UNCHANGED <<jsStatus, last>>
         ELSE \E in \in DispatchInputs, g \in LaudoInputs :
                /\ cfg.mode = "transient" => in.cockpit = "absent"
                /\ LET d == EnviarParaPipelineApi(cfg, in, "worker")
                       file == respExists \/ d.wrote
                       o == StageOutcome(cfg, jsStatus, d, g, file)
                   IN /\ jsStatus' = o.status
                      /\ registered' = o.sucesso
                      /\ respExists' = (file /\ cfg.mode # "transient")
                      /\ last' = Remember(d, in, "worker", respExists)
  /\ UNCHANGED baixarRet
  /\ UNCHANGED <<dvars, restP>>

\* loop.main lines 534-563: the next cycle lists the study again
NextCycle ==
  /\ ppc = "processed"
  /\ ppc' = "start"
  /\ registered' = FALSE
  /\ last' = NoDispatch
  /\ UNCHANGED <<jsStatus, respExists, baixarRet>>
  /\ UNCHANGED <<dvars, restP>>

\* pipeline.main (lines 420-470): the stage run by hand on a directory that
\* exists (--dir, or the mode's default directory of the study); it reads
\* the record, calls processar_exame and writes an error status back
PipelineMain ==
  /\ ppc = "start"
  /\ ppc' = "processed"
  /\ LET st == IF jsStatus = "none" THEN "completo" ELSE jsStatus
     IN IF ~PipelineAtivo(cfg)
          THEN /\ jsStatus' = IF st # "completo" THEN st ELSE jsStatus
               /\ UNCHANGED <<respExists, last>>
          ELSE \E in \in DispatchInputs, g \in LaudoInputs :
                 LET d == EnviarParaPipelineApi(cfg, in, "worker")
                     file == respExists \/ d.wrote
                     o == StageOutcome(cfg, st, d, g, file)
                 IN /\ jsStatus' = IF o.status # "completo" THEN o.status
                                    ELSE jsStatus
                    /\ respExists' = file
                    /\ last' = Remember(d, in, "main", respExists)
  /\ UNCHANGED <<baixarRet, registered>>
  /\ UNCHANGED <<dvars, restP>>

NextP ==
  \/ PipelineMain
  \/ BaixarAnShortcut
  \/ BaixarAnCompletes
  \/ BaixarAnIncomplete
  \/ WorkerAfterBaixarAn
  \/ NextCycle

\* ------------------------------------------------------------------------
\* The selection of the image to dispatch (_select_pipeline_dcm)
\* ------------------------------------------------------------------------
\* the tags read from one file: uid is SeriesInstanceUID (0 when the tag is
\* empty or the file cannot be read; identifiers are numbered in their
\* string order), snum and inum are SeriesNumber and InstanceNumber (0 when
\* absent or not all digits)
Tags == [uid : 0..NumSeries, snum : 0..1, inum : 0..1]

\* the lists of up to MaxFiles files (the caller returns before the
\* selection when there is no file)
SmallLists == UNION {[1..n -> Tags] : n \in 1..MaxFiles}

\* the sizes of the series of the example of the specification
ExampleSizes == <<2, 1, 3>>

\* the lists made of series 1, 2, 3 of sizes 2, 1, 3, in every path order
ExampleLists ==
  {f \in [1..(ExampleSizes[1] + ExampleSizes[2] + ExampleSizes[3]) ->
            [uid : 1..Len(ExampleSizes), snum : {0}, inum : {0}]] :
     \A u \in 1..Len(ExampleSizes) :
       Cardinality({i \in DOMAIN f : f[i].uid = u}) = ExampleSizes[u]}

InitC ==
  /\ dicomFiles \in SmallLists \cup ExampleLists
  /\ selected = 0

\* the sort key (series number, series UID, instance number, file name) of
\* file i compared with that of file j
KeyBefore(f, i, j) ==
  \/ f[i].snum < f[j].snum
  \/ f[i].snum = f[j].snum /\ f[i].uid < f[j].uid
  \/ f[i].snum = f[j].snum /\ f[i].uid = f[j].uid /\ f[i].inum < f[j].inum
  \/ f[i].snum = f[j].snum /\ f[i].uid = f[j].uid /\ f[i].inum = f[j].inum
       /\ i < j

RECURSIVE Enriched(_, _)
\* lines 108-123: the files of S sorted by their key
Enriched(f, S) ==
  IF S = {} THEN <<>>
  ELSE LET i == CHOOSE x \in S : \A y \in S \ {x} : KeyBefore(f, x, y)
       IN <<i>> \o Enriched(f, S \ {i})

\* a variant that groups the files without identifier into one series
SeriesKey_ByUid(uid, pos) == <<"uid", uid>>

\* line 126: uid = item[1] or f"__series_{idx}"
SeriesKey(uid, pos) == IF uid # 0 THEN <<"uid", uid>> ELSE <<"idx", pos>>

RECURSIVE FirstIdxBySeries(_, _, _, _)
\* lines 124-130: the dictionary of the first index of every series key, as
\* the list of its items in insertion order
FirstIdxBySeries(f, q, pos, acc) ==
  IF pos > Len(q) THEN acc
  ELSE LET k == SeriesKey(f[q[pos]].uid, pos)
       IN FirstIdxBySeries(f, q, pos + 1,
            IF \E m \in 1..Len(acc) : acc[m].key = k
              THEN acc
              ELSE Append(acc, [key |-> k, first |-> pos]))

\* lines 107-136
SelectPipelineDcm(f) ==
  LET enriched == Enriched(f, DOMAIN f)
      unique_series == FirstIdxBySeries(f, enriched, 1, <<>>)
  IN IF Len(unique_series) >= 2 THEN enriched[unique_series[2].first]
     ELSE IF Len(enriched) >= 2 THEN enriched[2]
     ELSE enriched[1]

\* pipeline.py lines 139-144: dcm_file = _select_pipeline_dcm(dicom_files)
SelectDcm ==
  /\ selected = 0
  /\ selected' = SelectPipelineDcm(dicomFiles)
  /\ UNCHANGED dicomFiles
  /\ UNCHANGED restC

NextC == SelectDcm

\* ------------------------------------------------------------------------
\* The download pool of one invocation, with a stop arriving
\* ------------------------------------------------------------------------
\* downloader.py lines 652-674: the executor runs at most DOWNLOAD_WORKERS
\* submitted tasks at a time and takes them in submission order
TaskBegins(i) ==
  /\ pc = "consume"
  /\ i \in 1..Len(tasks)
  /\ i \notin begun
  /\ \A j \in 1..(i - 1) : j \in begun
  /\ Cardinality({j \in begun : result[j] = "pending"}) < DownloadWorkers
  /\ begun' = begun \cup {i}
  /\ UNCHANGED restX

\* a task that has begun runs _baixar_sop to its end
TaskEnds(i) ==
  /\ i \in begun
  /\ RunTask(i)

NextCancel ==
  \/ ResolveOk
  \/ StartDownload
  \/ \E i \in 1..NumSops : TaskBegins(i)
  \/ \E i \in 1..NumSops : TaskEnds(i)
  \/ Consume
  \/ FinalComplete
  \/ FinalIncomplete
  \/ StopBegin
  \/ StopEnd

\* ------------------------------------------------------------------------
\* register_success, statement by statement (loop.py lines 88-105)
\* ------------------------------------------------------------------------
\* the success_limit arguments: None, or a number that may be negative or 0
LimitArgs == [given : {FALSE}, n : {0}] \cup [given : {TRUE}, n : -1..MaxLimit]

\* line 72: success_limit if success_limit and success_limit > 0 else None
\* (None is kept as 0)
NormLimit(arg) == IF arg.given /\ arg.n > 0 THEN arg.n ELSE 0

\* lines 66-72: a new controller
InitK ==
  /\ limitArg \in LimitArgs
  /\ successLimit = NormLimit(limitArg)
  /\ stopEvent = FALSE /\ pauseEvent = TRUE /\ successCount = 0
  /\ lockHolder = "free"
  /\ listLen = [w \in Workers |-> 0] /\ idx = [w \in Workers |-> 1]
  /\ wpc = [w \in Workers |-> "finished"]
  /\ ctlPc = "idle" /\ stopCalled = FALSE
  /\ rsPc = [w \in Workers |-> "idle"]
  /\ rsLoad = [w \in Workers |-> 0]
  /\ rsCount = [w \in Workers |-> 0]
  /\ rsCalls = [w \in Workers |-> 0]
  /\ rsReturned = <<>>

\* a variant that enters the block without taking the lock
RegAcquire_NoLock(w) ==
  /\ rsPc[w] = "idle"
  /\ rsCalls[w] < MaxList
  /\ lockHolder' = w
  /\ rsPc' = [rsPc EXCEPT ![w] = "locked"]
  /\ rsCalls' = [rsCalls EXCEPT ![w] = rsCalls[w] + 1]
  /\ UNCHANGED <<stopEvent, pauseEvent, successCount, successLimit, listLen,
                 idx, wpc, ctlPc, stopCalled>>
  /\ UNCHANGED <<limitArg, rsLoad, rsCount, rsReturned>>
  /\ UNCHANGED restK

\* line 94: with self._lock, entered by one thread at a time
RegAcquire(w) ==
  /\ rsPc[w] = "idle"
  /\ rsCalls[w] < MaxList
  /\ lockHolder = "free"
  /\ lockHolder' = w
  /\ rsPc' = [rsPc EXCEPT ![w] = "locked"]
  /\ rsCalls' = [rsCalls EXCEPT ![w] = rsCalls[w] + 1]
  /\ UNCHANGED <<stopEvent, pauseEvent, successCount, successLimit, listLen,
                 idx, wpc, ctlPc, stopCalled>>
  /\ UNCHANGED <<limitArg, rsLoad, rsCount, rsReturned>>
  /\ UNCHANGED restK

\* line 95, first half: self._success_count += 1 reads the counter
RegLoad(w) ==
  /\ rsPc[w] = "locked"
  /\ rsLoad' = [rsLoad EXCEPT ![w] = successCount]
  /\ rsPc' = [rsPc EXCEPT ![w] = "loaded"]
  /\ UNCHANGED lvars
  /\ UNCHANGED <<limitArg, rsCount, rsCalls, rsReturned>>
  /\ UNCHANGED restK

\* lines 95-96: ... and stores the sum; count = self._success_count
RegStore(w) ==
  /\ rsPc[w] = "loaded"
  /\ successCount' = rsLoad[w] + 1
  /\ rsCount' = [rsCount EXCEPT ![w] = rsLoad[w] + 1]
  /\ rsPc' = [rsPc EXCEPT ![w] = "counted"]
  /\ UNCHANGED <<stopEvent, pauseEvent, successLimit, lockHolder, listLen,
                 idx, wpc, ctlPc, stopCalled>>
  /\ UNCHANGED <<limitArg, rsLoad, rsCalls, rsReturned>>
  /\ UNCHANGED restK

\* lines 97-100: limit, reached, and at the limit self._stop_event.set()
RegCheck(w) ==
  /\ rsPc[w] = "counted"
  /\ IF Reached(successLimit, rsCount[w])
       THEN stopEvent' = TRUE /\ rsPc' = [rsPc EXCEPT ![w] = "stop_set"]
       ELSE stopEvent' = stopEvent /\ rsPc' = [rsPc EXCEPT ![w] = "return"]
  /\ UNCHANGED <<pauseEvent, successCount, successLimit, lockHolder, listLen,
                 idx, wpc, ctlPc, stopCalled>>
  /\ UNCHANGED <<limitArg, rsLoad, rsCount, rsCalls, rsReturned>>
  /\ UNCHANGED restK

\* line 101: self._pause_event.set()
RegSetPause(w) ==
  /\ rsPc[w] = "stop_set"
  /\ pauseEvent' = TRUE
  /\ rsPc' = [rsPc EXCEPT ![w] = "return"]
  /\ UNCHANGED <<stopEvent, successCount, successLimit, lockHolder, listLen,
                 idx, wpc, ctlPc, stopCalled>>
  /\ UNCHANGED <<limitArg, rsLoad, rsCount, rsCalls, rsReturned>>
  /\ UNCHANGED restK

\* line 102: return count, limit, reached; the lock is released
RegReturn(w) ==
  /\ rsPc[w] = "return"
  /\ rsReturned' = Append(rsReturned,
                     [by |-> w, count |-> rsCount[w],
                      reached |-> Reached(successLimit, rsCount[w])])
  /\ lockHolder' = "free"
  /\ rsPc' = [rsPc EXCEPT ![w] = "idle"]
  /\ UNCHANGED <<stopEvent, pauseEvent, successCount, successLimit, listLen,
                 idx, wpc, ctlPc, stopCalled>>
  /\ UNCHANGED <<limitArg, rsLoad, rsCount, rsCalls>>
  /\ UNCHANGED restK

NextK ==
  \/ \E w \in Workers : RegAcquire(w)
  \/ \E w \in Workers : RegLoad(w)
  \/ \E w \in Workers : RegStore(w)
  \/ \E w \in Workers : RegCheck(w)
  \/ \E w \in Workers : RegSetPause(w)
  \/ \E w \in Workers : RegReturn(w)

\* ------------------------------------------------------------------------
\* The load of the record at the start of baixar_an (downloader.py lines
\* 87-94 and 575-582)
\* ------------------------------------------------------------------------
\* what the record file may be: absent; present but read_text raises (no
\* permission, a directory, bytes that are not UTF-8); text that is not
\* JSON (empty, truncated); a JSON object written by _gravar_json; JSON
\* that is falsy ({}, [], null, 0); JSON that is truthy but no object
FileKinds == {"missing", "unreadable", "malformed", "record", "falsy",
              "truthy"}

\* the records _gravar_json writes
DiskRecords ==
  [exists : {TRUE}, total : 1..NumSops, baixadas : 0..NumSops,
   status : Contents, historico : SUBSET Sops, patient : BOOLEAN]

NotRead == [raised |-> FALSE, val |-> "none", rec |-> NoRecord]

\* a variant that lets the parse error out
ReadJson_NoCatch(kind, rec) ==
  CASE kind = "missing" -> [raised |-> FALSE, val |-> "empty", rec |-> NoRecord]
    [] kind \in {"unreadable", "malformed"} ->
         [raised |-> TRUE, val |-> "none", rec |-> NoRecord]
    [] kind = "record" -> [raised |-> FALSE, val |-> "record", rec |-> rec]
    [] OTHER -> [raised |-> FALSE, val |-> kind, rec |-> NoRecord]

\* _ler_json: {} when the file does not exist, {} when read_text or
\* json.loads raises, else whatever json.loads returns
ReadJson(kind, rec) ==
  CASE kind = "missing" -> [raised |-> FALSE, val |-> "empty", rec |-> NoRecord]
    [] kind \in {"unreadable", "malformed"} ->
         [raised |-> FALSE, val |-> "empty", rec |-> NoRecord]
    [] kind = "record" -> [raised |-> FALSE, val |-> "record", rec |-> rec]
    [] OTHER -> [raised |-> FALSE, val |-> kind, rec |-> NoRecord]

InitJ ==
  /\ fileKind \in FileKinds
  /\ diskRecord \in IF fileKind = "record" THEN DiskRecords ELSE {NoRecord}
  /\ jTotal \in 1..NumSops
  /\ lerRet = NotRead
  /\ jsLoaded = NoRecord
  /\ jpc = "start"

\* line 575: js = _ler_json(an)
LerJsonCall ==
  /\ jpc = "start"
  /\ lerRet' = ReadJson(fileKind, diskRecord)
  /\ jpc' = IF lerRet'.raised THEN "raised" ELSE "read"
  /\ UNCHANGED <<fileKind, diskRecord, jTotal, jsLoaded>>
  /\ UNCHANGED restJ

\* lines 578-579: not js, so js = _iniciar_json(an, servidor, meta); the
\* write of the new record may fail, which _gravar_json only logs
LoadIniciar ==
  /\ jpc = "read"
  /\ lerRet.val \in {"empty", "falsy"}
  /\ jsLoaded' = IniciarJson(jTotal)
  /\ \E written \in BOOLEAN :
       IF written THEN fileKind' = "record" /\ diskRecord' = IniciarJson(jTotal)
       ELSE UNCHANGED <<fileKind, diskRecord>>
  /\ jpc' = "loaded"
  /\ UNCHANGED <<jTotal, lerRet>>
  /\ UNCHANGED restJ

\* lines 580-582: a record was read; js["total"] = total; _gravar_json
LoadUpdate ==
  /\ jpc = "read"
  /\ lerRet.val = "record"
  /\ jsLoaded' = [lerRet.rec EXCEPT !.total = jTotal]
  /\ \E written \in BOOLEAN :
       IF written THEN fileKind' = "record" /\ diskRecord' = jsLoaded'
       ELSE UNCHANGED <<fileKind, diskRecord>>
  /\ jpc' = "loaded"
  /\ UNCHANGED <<jTotal, lerRet>>
  /\ UNCHANGED restJ

\* line 581: js is a list, a string or a number, js["total"] = total raises
LoadTypeError ==
  /\ jpc = "read"
  /\ lerRet.val = "truthy"
  /\ jpc' = "raised"
  /\ UNCHANGED <<fileKind, diskRecord, jTotal, lerRet, jsLoaded>>
  /\ UNCHANGED restJ

NextJ == LerJsonCall \/ LoadIniciar \/ LoadUpdate \/ LoadTypeError

\* ------------------------------------------------------------------------
\* A runtime change of config.STORAGE_MODE (loop.main lines 406-407, run on
\* the GUI's loop thread while a manual download may be in flight)
\* ------------------------------------------------------------------------
InFlight == pc \notin {"idle", "done"}

\* the configurations of mode m that keep the other settings
ConfigsOfMode(c, m) ==
  {d \in [mode : {m}, strict : {c.strict}, onTransient : BOOLEAN,
          incoming : Incoming] :
     m # "transient" => ~d.onTransient /\ d.incoming = "present"}

\* loop.py line 407: config.STORAGE_MODE = args.storage_mode, here while an
\* invocation of baixar_an is in flight
SetStorageMode(m) ==
  /\ modeRead = "none"
  /\ InFlight
  /\ m # cfg.mode
  /\ cfg' \in ConfigsOfMode(cfg, m)
  /\ modeRead' = cfg.mode
  /\ changedIn' = calls
  /\ UNCHANGED <<record, files, dirExists, pc, manifest, historico, tasks,
                 result, metaRet, cursor, ret, resolved, posted, calls,
                 startHist, stable, removed, prev>>
  /\ UNCHANGED restG

NextMode ==
  \/ ResolveOk
  \/ StartDownload
  \/ \E i \in 1..NumSops : RunTask(i)
  \/ Consume
  \/ FinalComplete
  \/ FinalIncomplete
  \/ \E m \in Modes : SetStorageMode(m)

\* ------------------------------------------------------------------------
\* query._parse_xml (lines 104-133): from the Study element to the manifest
\* ------------------------------------------------------------------------
\* the SOPInstanceUID attribute of an Instance element; "" when it is missing
SopAttrs == {"", "1.2.1", "1.2.2"}

\* the SeriesInstanceUID attribute of a Series element; "" when it is missing
SeriesAttrs == {"", "1.1"}

\* the sequences over S of length at most n
SeqsUpTo(S, n) == UNION {[1..k -> S] : k \in 0..n}

XmlSeriesElements ==
  [series_uid : SeriesAttrs, instances : SeqsUpTo(SopAttrs, NumSops)]

NoManifest == [series |-> <<>>, total_instances |-> 0]

\* lines 111-115: the non-empty SOPInstanceUID attributes, in document order
RECURSIVE SopList(_)
SopList(insts) ==
  IF insts = <<>> THEN <<>>
  ELSE (IF Head(insts) # "" THEN <<Head(insts)>> ELSE <<>>)
         \o SopList(Tail(insts))

\* lines 106-122: a Series without SeriesInstanceUID is skipped; every other
\* one adds len(sop_list) to total_instances and one entry to series_list
RECURSIVE ParseSeries(_)
ParseSeries(els) ==
  IF els = <<>> THEN NoManifest
  ELSE LET rest == ParseSeries(Tail(els))
           e == Head(els)
           sops == SopList(e.instances)
       IN IF e.series_uid = "" THEN rest
          ELSE [series |-> <<[series_uid |-> e.series_uid,
                              instances |-> sops]>> \o rest.series,
                total_instances |-> Len(sops) + rest.total_instances]

InitQ ==
  /\ xmlSeries \in SeqsUpTo(XmlSeriesElements, NumSeries)
  /\ parsed = NoManifest
  /\ qpc = "call"

\* lines 104-131: the manifest is returned
ParseXmlReturns ==
  /\ qpc = "call"
  /\ ParseSeries(xmlSeries).total_instances # 0
  /\ parsed' = ParseSeries(xmlSeries)
  /\ qpc' = "returned"
  /\ UNCHANGED xmlSeries
  /\ UNCHANGED restQ

\* lines 124-125: no image at all, RuntimeError
ParseXmlRaises ==
  /\ qpc = "call"
  /\ ParseSeries(xmlSeries).total_instances = 0
  /\ qpc' = "raised"
  /\ UNCHANGED <<xmlSeries, parsed>>
  /\ UNCHANGED restQ

NextQ == ParseXmlReturns \/ ParseXmlRaises

\* ------------------------------------------------------------------------
\* downloader._baixar_sop (lines 155-243), one call
\* ------------------------------------------------------------------------
\* the last pass of `for tentativa in range(1, 3)` (line 234)
Tentativas == 2

\* what one GET does: an exception (connection, timeout, HTTP status, disk),
\* which may leave a file behind; a 200 answer with an empty body; a 200
\* answer with content
GetOutcomes == {"raises", "raises_partial", "empty", "content"}

InitB ==
  /\ sopPc = "attempt" /\ tentativa = 1 /\ requestsSent = 0 /\ backoffs = 0
  /\ destino \in {"none", "empty", "ok"}
  /\ sopRet = FALSE /\ placedOk = FALSE

\* lines 164-174: requests.get, raise_for_status, the body written to destino
SopGet(out) ==
  /\ sopPc = "attempt"
  /\ requestsSent' = requestsSent + 1
  /\ destino' = CASE out = "raises" -> destino
                  [] out = "raises_partial" -> "empty"
                  [] out = "empty" -> "empty"
                  [] out = "content" -> "ok"
  /\ sopPc' = IF out \in {"raises", "raises_partial"} THEN "except"
              ELSE "validate"
  /\ UNCHANGED <<tentativa, backoffs, sopRet, placedOk>>
  /\ UNCHANGED restB

\* line 177: destino.exists() and st_size > 0; when it is false the pass
\* ends without exception and the loop goes on
SopValidate ==
  /\ sopPc = "validate"
  /\ sopPc' = IF destino = "ok" THEN "place" ELSE "next"
  /\ UNCHANGED <<tentativa, requestsSent, backoffs, destino, sopRet, placedOk>>
  /\ UNCHANGED restB

\* lines 195-222: transient moves the file to the inbox (final_ok = False
\* when the move fails or the inbox is unusable, which also unlinks the
\* file); persistent and pipeline keep it, the legacy copy failing silently;
\* return final_ok
SopPlace ==
  /\ sopPc = "place"
  /\ \E usable \in BOOLEAN, moved \in BOOLEAN :
       /\ (usable => InboxUsable(cfg)) /\ (~usable => InboxUnusable(cfg))
       /\ LET ok == IF cfg.mode = "transient" THEN usable /\ moved ELSE TRUE
          IN /\ sopRet' = ok
             /\ placedOk' = ok
             /\ destino' = IF cfg.mode = "transient" /\ (ok \/ ~usable)
                             THEN "none" ELSE destino
  /\ sopPc' = "returned"
  /\ UNCHANGED <<tentativa, requestsSent, backoffs>>
  /\ UNCHANGED restB

\* lines 224-241: the except clause: on the first pass time.sleep(0.5), then
\* destino is unlinked (an OSError of unlink is swallowed)
SopExcept ==
  /\ sopPc = "except"
  /\ backoffs' = IF tentativa = Tentativas THEN backoffs ELSE backoffs + 1
  /\ \E unlinked \in BOOLEAN :
       destino' = IF unlinked THEN "none" ELSE destino
  /\ sopPc' = "next"
  /\ UNCHANGED <<tentativa, requestsSent, sopRet, placedOk>>
  /\ UNCHANGED restB

\* line 163: the next pass of the loop; line 243: return False, None
SopNext ==
  /\ sopPc = "next"
  /\ IF tentativa < Tentativas
       THEN /\ tentativa' = tentativa + 1 /\ sopPc' = "attempt"
            /\ UNCHANGED sopRet
       ELSE /\ sopPc' = "returned" /\ sopRet' = FALSE
            /\ UNCHANGED tentativa
  /\ UNCHANGED <<requestsSent, backoffs, destino, placedOk>>
  /\ UNCHANGED restB

NextB ==
  \/ \E out \in GetOutcomes : SopGet(out)
  \/ SopValidate
  \/ SopPlace
  \/ SopExcept
  \/ SopNext

\* ------------------------------------------------------------------------
\* The specifications
\* ------------------------------------------------------------------------
vars == <<dvars, lvars, svars, mvars, rvars, pvars, cvars, xvars, kvars, jvars, gvars, qvars, bvars, hvars>>

\* each part at rest: no invocation, no thread, no writer
IdleBaixar ==
  /\ record = NoRecord /\ files = NoFiles /\ dirExists = FALSE
  /\ pc = "idle" /\ manifest = {} /\ historico = {} /\ tasks = <<>>
  /\ result = <<>> /\ metaRet = <<>> /\ cursor = 0 /\ ret = FALSE
  /\ resolved = FALSE /\ posted = FALSE /\ calls = 0 /\ startHist = {}
  /\ stable = TRUE /\ removed = {} /\ prev = NoPrev

IdleD ==
  /\ cfg = [mode |-> "persistent", strict |-> FALSE, onTransient |-> FALSE,
            incoming |-> "present"]
  /\ IdleBaixar

IdleL ==
  /\ stopEvent = FALSE /\ pauseEvent = TRUE /\ successCount = 0
  /\ successLimit = 0 /\ lockHolder = "free"
  /\ listLen = [w \in Workers |-> 0] /\ idx = [w \in Workers |-> 1]
  /\ wpc = [w \in Workers |-> "finished"]
  /\ ctlPc = "idle" /\ stopCalled = FALSE

IdleS ==
  /\ jsonFile = "absent" /\ tmpFile = "absent" /\ writer = "idle"
  /\ payload = "none" /\ everPresent = FALSE

IdleM ==
  /\ mpc = "while"
  /\ fetched = [w \in Workers |-> <<>>]
  /\ alive = [w \in Workers |-> 0]
  /\ tlist = [w \in Workers |-> <<>>]
  /\ tpos = [w \in Workers |-> 0]
  /\ tst = [w \in Workers |-> "dead"]
  /\ started = [w \in Workers |-> <<>>]
  /\ manual = [k \in 1..MaxManual |-> 0]

IdleR ==
  /\ jsonMtime = [a \in Studies |-> 0] /\ dirMtime = [a \in Studies |-> 0]
  /\ maxExames = 1 /\ rpc = "after"
  /\ jsonMtime0 = [a \in Studies |-> 0] /\ dirMtime0 = [a \in Studies |-> 0]

IdleP ==
  /\ ppc = "processed" /\ jsStatus = "none" /\ respExists = FALSE
  /\ baixarRet = FALSE /\ registered = FALSE /\ last = NoDispatch

IdleC == dicomFiles = <<>> /\ selected = 0

IdleX ==
  begun = {}

IdleK ==
  /\ limitArg = [given |-> FALSE, n |-> 0]
  /\ rsPc = [w \in Workers |-> "idle"] /\ rsLoad = [w \in Workers |-> 0]
  /\ rsCount = [w \in Workers |-> 0] /\ rsCalls = [w \in Workers |-> 0]
  /\ rsReturned = <<>>

IdleJ ==
  /\ fileKind = "missing" /\ diskRecord = NoRecord /\ jTotal = 1
  /\ lerRet = NotRead /\ jsLoaded = NoRecord /\ jpc = "loaded"

IdleG ==
  modeRead = "none" /\ changedIn = 0

IdleQ ==
  xmlSeries = <<>> /\ parsed = NoManifest /\ qpc = "raised"

IdleB ==
  /\ sopPc = "returned" /\ tentativa = 1 /\ requestsSent = 0 /\ backoffs = 0
  /\ destino = "none" /\ sopRet = FALSE /\ placedOk = FALSE

IdleH ==
  guiSwept = FALSE /\ once = FALSE

\* repeated baixar_an invocations on one study
Init == InitD /\ IdleL /\ IdleS /\ IdleM /\ IdleR /\ IdleP /\ IdleC /\ IdleX /\ IdleK /\ IdleJ /\ IdleG /\ IdleQ /\ IdleB /\ IdleH

Spec == Init /\ [][NextD]_vars

\* the controller and the two workers of one batch
InitLoop == InitL /\ IdleD /\ IdleS /\ IdleM /\ IdleR /\ IdleP /\ IdleC /\ IdleX /\ IdleK /\ IdleJ /\ IdleG /\ IdleQ /\ IdleB /\ IdleH

SpecLoop == InitLoop /\ [][NextL]_vars

\* the steps of worker thread w
WorkerStep(w) ==
  \/ WorkerCheckStop(w)
  \/ WaitIfPausedTest(w)
  \/ WaitIfPausedStop(w)
  \/ WaitIfPausedSleep(w)
  \/ WorkerStudyEnds(w)
  \/ WorkerExcept(w)
  \/ RegisterSuccess(w)
  \/ RegisterSuccessRelease(w)

\* no limit or a limit of one success; the two threads run the same code,
\* so the longer list is given to HBR
InitFair ==
  /\ InitLoop
  /\ successLimit <= 1
  /\ listLen["HBR"] >= listLen["HAC"]

\* the same, with threads that are scheduled again and again, a study in
\* flight that ends, and a stop() that runs to its end; the GUI's pause and
\* resume may come at any time or never
FairLoop ==
  /\ InitFair /\ [][NextL]_vars
  /\ \A w \in Workers : WF_vars(WorkerStep(w))
  /\ WF_vars(StopEnd)

\* one record file, its writers and crashes
InitStore == IdleS /\ IdleD /\ IdleL /\ IdleM /\ IdleR /\ IdleP /\ IdleC /\ IdleX /\ IdleK /\ IdleJ /\ IdleG /\ IdleQ /\ IdleB /\ IdleH

SpecStore == InitStore /\ [][NextS]_vars

\* loop.main's cycle, the worker threads it starts and manual downloads
InitMain ==
  /\ IdleM /\ IdleL /\ IdleD /\ IdleS /\ IdleR /\ IdleP /\ IdleC /\ IdleX
  /\ IdleK /\ IdleJ /\ IdleG /\ IdleQ /\ IdleB
  /\ guiSwept = FALSE /\ once \in BOOLEAN

SpecMain == InitMain /\ [][NextM]_vars

\* one retention sweep over every arrangement of records and directories
\* (the transient sweep never looks at OUTPUT_DICOM_DIR)
InitRetention ==
  /\ cfg \in [mode : Modes, strict : {FALSE}, onTransient : {FALSE},
               incoming : {"present"}]
  /\ InitR
  /\ (cfg.mode = "transient" => dirMtime = [a \in Studies |-> 0])
  /\ IdleBaixar /\ IdleL /\ IdleS /\ IdleM /\ IdleP /\ IdleC /\ IdleX /\ IdleK /\ IdleJ /\ IdleG /\ IdleQ /\ IdleB /\ IdleH

SpecRetention == InitRetention /\ [][NextR]_vars

\* one study through the pipeline stage, cycle after cycle
InitPipeline ==
  /\ InitP
  /\ cfg \in [mode : Modes, strict : BOOLEAN, onTransient : BOOLEAN,
               incoming : {"present"}]
  /\ (cfg.mode # "transient" => cfg.onTransient = FALSE)
  /\ IdleBaixar /\ IdleL /\ IdleS /\ IdleM /\ IdleR /\ IdleC /\ IdleX /\ IdleK /\ IdleJ /\ IdleG /\ IdleQ /\ IdleB /\ IdleH

SpecPipeline == InitPipeline /\ [][NextP]_vars

\* one selection on every list of files
InitSelect == InitC /\ IdleD /\ IdleL /\ IdleS /\ IdleM /\ IdleR /\ IdleP /\ IdleX /\ IdleK /\ IdleJ /\ IdleG /\ IdleQ /\ IdleB /\ IdleH

SpecSelect == InitSelect /\ [][NextC]_vars

\* the first invocation on a study, while stop() may be called
InitCancel == InitD /\ IdleL /\ IdleS /\ IdleM /\ IdleR /\ IdleP /\ IdleC /\ IdleX /\ IdleK /\ IdleJ /\ IdleG /\ IdleQ /\ IdleB /\ IdleH

SpecCancel == InitCancel /\ [][NextCancel]_vars

\* the two workers calling register_success on one controller
InitCounter == InitK /\ IdleD /\ IdleS /\ IdleM /\ IdleR /\ IdleP /\ IdleC /\ IdleX /\ IdleJ /\ IdleG /\ IdleQ /\ IdleB /\ IdleH

SpecCounter == InitCounter /\ [][NextK]_vars

\* one load of the record over every state of the record file
InitLoad == InitJ /\ IdleD /\ IdleL /\ IdleS /\ IdleM /\ IdleR /\ IdleP /\ IdleC /\ IdleX /\ IdleK /\ IdleG /\ IdleQ /\ IdleB /\ IdleH

SpecLoad == InitLoad /\ [][NextJ]_vars

\* one baixar_an invocation of a new study with one change of the storage
\* mode while it is in flight
InitMode == InitD /\ IdleL /\ IdleS /\ IdleM /\ IdleR /\ IdleP /\ IdleC /\ IdleX /\ IdleK /\ IdleJ /\ IdleG /\ IdleQ /\ IdleB /\ IdleH

SpecMode == InitMode /\ [][NextMode]_vars

\* one parse over every small study description
InitParse == InitQ /\ IdleD /\ IdleL /\ IdleS /\ IdleM /\ IdleR /\ IdleP /\ IdleC /\ IdleX /\ IdleK /\ IdleJ /\ IdleG /\ IdleB /\ IdleH

SpecParse == InitParse /\ [][NextQ]_vars

\* one call of _baixar_sop under every configuration
InitSop ==
  /\ InitB
  /\ cfg \in [mode : Modes, strict : {FALSE}, onTransient : {FALSE},
              incoming : Incoming]
  /\ (cfg.mode # "transient" => cfg.incoming = "present")
  /\ IdleBaixar /\ IdleL /\ IdleS /\ IdleM /\ IdleR /\ IdleP /\ IdleC /\ IdleX /\ IdleK /\ IdleJ /\ IdleG /\ IdleQ /\ IdleH

SpecSop == InitSop /\ [][NextB]_vars

\* ------------------------------------------------------------------------
\* Properties of the download engine (specification Spec)
\* ------------------------------------------------------------------------
Range(q) == {q[i] : i \in 1..Len(q)}

\* baixar_an has just returned (the worker's post-processing not yet run)
\* from an invocation that resolved a manifest
Ended == pc = "done" /\ resolved /\ ~posted

\* the invocation is the first one of the study
FirstCall == ~prev.valid

\* the invocation directly follows the study's first one, which resolved the
\* same manifest and in which every fetch and placement succeeded, and no
\* file was touched in between
SecondAfterClean ==
  /\ calls = 2 /\ stable
  /\ prev.valid /\ prev.resolved /\ prev.allOk
  /\ removed = {}

ErrorStatuses == {"pipeline_erro", "pipeline_laudo_erro"}

\* C1 as stated: idempotent resume. With an unchanged manifest of N images
\* and every fetch and placement succeeding, the first call ends with exactly
\* N IDs in historico and status completo; the second call returns True,
\* starts no download and leaves historico unchanged.
C1_IdempotentResume_AsStated ==
  /\ (Ended /\ FirstCall /\ AllOk) =>
        /\ record.historico = manifest
        /\ Cardinality(record.historico) = total
        /\ record.status = "completo"
  /\ (Ended /\ SecondAfterClean) =>
        /\ ret
        /\ tasks = <<>>
        /\ record.historico = startHist

\* C1 amended: as C1, except that in pipeline mode under PIPELINE_STRICT a
\* failed dispatch or report step leaves the first call with status
\* pipeline_erro / pipeline_laudo_erro and return value False (historico
\* still holds the N IDs); the second call is a no-op success in every case.
C1_IdempotentResume ==
  /\ (Ended /\ FirstCall /\ AllOk) =>
        /\ record.historico = manifest
        /\ Cardinality(record.historico) = total
        /\ record.baixadas = total
        /\ \/ record.status = "completo" /\ ret
           \/ /\ cfg.mode = "pipeline" /\ cfg.strict
              /\ record.status \in ErrorStatuses /\ ~ret
  /\ (Ended /\ SecondAfterClean) =>
        /\ ret
        /\ tasks = <<>>
        /\ record.historico = startHist
        /\ record.historico = manifest
        /\ record.status = "completo"

\* the second call of a clean two-call run has returned, for a 2-image study
C1_Witness ==
  /\ Ended /\ SecondAfterClean /\ ret
  /\ Cardinality(manifest) = 2 /\ record.historico = manifest

\* C2: every persisted ProgressRecord has baixadas equal to the number of
\* IDs in historico.
C2_BaixadasEqualsHistorico ==
  record.exists => record.baixadas = Cardinality(record.historico)

\* C3: after every write of an invocation, historico holds only IDs of the
\* manifest that invocation resolved.
C3_HistoricoSubsetOfManifest ==
  (resolved /\ pc \in {"reconcile", "consume", "done"}) =>
     record.historico \subseteq manifest

\* C4: when baixar_an returns with a manifest image missing from historico,
\* it returns False and the record is not marked completo.
C4_CompleteOnlyIfCovered ==
  (Ended /\ ~(manifest \subseteq record.historico)) =>
     (~ret /\ record.status # "completo")

\* the study was downloaded completely under the manifest it still has, and
\* exactly one delivered image file was then removed or emptied
OneFileLost ==
  /\ resolved /\ stable /\ cfg.mode # "transient"
  /\ prev.valid /\ prev.resolved /\ prev.ret
  /\ Cardinality(removed) = 1 /\ removed \subseteq startHist

\* C5: reconciliation in persistent / pipeline mode. After a completed
\* download of a study whose manifest is unchanged, if the file of exactly
\* one recorded image was deleted or emptied, the next call creates a
\* download task for exactly that image and no other.
C5_Reconciliation ==
  (OneFileLost /\ pc \in {"consume", "done"}) =>
     (Len(tasks) = 1 /\ Range(tasks) = removed)

\* the re-download of the one lost image of a 2-image study has been queued
C5_Witness ==
  /\ OneFileLost /\ pc = "consume"
  /\ Cardinality(manifest) = 2 /\ Len(tasks) = 1 /\ tasks[1] \in removed

\* C6: an invocation whose manifest resolution fails returns False and neither
\* creates nor modifies the ProgressRecord, the working directory or its
\* files.
C6_FailedResolveChangesNothing ==
  [][(pc = "idle" /\ pc' = "done") =>
       /\ record' = record
       /\ dirExists' = dirExists
       /\ files' = files
       /\ ret' = FALSE]_dvars

\* a resolution failure on a study that already has a record and a directory
C6_Witness ==
  pc = "done" /\ ~resolved /\ ~ret /\ record.exists /\ dirExists

\* the tasks of the invocation have just been submitted; none has run
JustSubmitted ==
  pc = "consume" /\ \A i \in 1..Len(tasks) : result[i] = "pending"

\* C7: a call starts downloads only for manifest images; no image that the
\* record lists as delivered (and, outside transient mode, whose file exists
\* with non-zero size) gets a download task. In particular this holds for
\* the call that follows an invocation that ended incomplete.
C7_NoRefetchOfDelivered ==
  JustSubmitted =>
     /\ Range(tasks) \subseteq manifest
     /\ \A sop \in startHist :
          (cfg.mode = "transient" \/ files[sop] = "ok") => sop \notin Range(tasks)

\* a retry after an incomplete invocation: one image was delivered before,
\* the other is queued again
C7_Witness ==
  /\ JustSubmitted
  /\ prev.valid /\ prev.resolved /\ ~prev.ret
  /\ startHist # {} /\ startHist \subseteq manifest
  /\ tasks # <<>>

\* C12: within one invocation the record is written only by the thread that
\* consumes the results, once per consumed result and in consumption order;
\* a pool task finishing never changes the record.
C12_OnlyConsumerWrites ==
  [][pc = "consume" =>
       /\ (result' # result) => record' = record
       /\ (pc' = "consume" /\ record' # record) => cursor' = cursor + 1
       /\ (cursor' = cursor + 1) =>
            /\ record'.historico = historico'
            /\ record'.baixadas = Cardinality(historico')
            /\ record'.status = "baixando"
            /\ historico' \in {historico, historico \cup {tasks[cursor + 1]}}]_dvars

\* the first result is consumed and recorded, the second task has fetched its
\* image but the record does not list it yet
C12_Witness ==
  /\ pc = "consume" /\ Len(tasks) = 2 /\ cursor = 1
  /\ result[1] = "ok" /\ result[2] = "ok"
  /\ record.historico = {tasks[1]} /\ record.baixadas = 1

\* ------------------------------------------------------------------------
\* Properties of the controller and the workers (specification SpecLoop)
\* ------------------------------------------------------------------------
\* C9: once stop() has been called, no worker starts baixar_an for a further
\* study.
C9_NoStudyStartsAfterStop ==
  [][\A w \in Workers :
       (stopCalled /\ wpc'[w] = "baixar") => wpc[w] = "baixar"]_lvars

\* C10 as stated: with a success limit N > 0 the global success counter never
\* exceeds N.
C10_CounterWithinLimit_AsStated ==
  successLimit > 0 => successCount <= successLimit

\* C10 amended: with a success limit N > 0 and two workers the global success
\* counter never exceeds N + 1: when one worker reaches the limit, the study
\* the other worker has in flight (or is just starting) may still succeed.
C10_CounterWithinLimitPlusOne ==
  successLimit > 0 => successCount <= successLimit + 1

\* the limit was reached and the other worker's study was counted on top
C10_Witness ==
  successLimit > 0 /\ successCount = successLimit + 1 /\ stopEvent

\* ------------------------------------------------------------------------
\* Properties of the record file (specification SpecStore)
\* ------------------------------------------------------------------------
\* C8: every write of a ProgressRecord is atomic: at no point, whatever the
\* writer and wherever it crashes, is the record file partially written, and
\* a record that was present is never absent afterwards.
C8_EveryWriteAtomic ==
  /\ jsonFile # "partial"
  /\ everPresent => jsonFile # "absent"


\* ------------------------------------------------------------------------
\* Properties of the cycle, the threads and manual downloads
\* (specification SpecMain)
\* ------------------------------------------------------------------------
\* the study a worker thread has in flight
CurrentAN(w) == tlist[w][tpos[w] + 1]

\* the study a worker thread is running baixar_an on, 0 for none
WorkerAN(w) == IF tst[w] = "inflight" THEN CurrentAN(w) ELSE 0

\* C11: no two threads (HBR worker, HAC worker, manual download) process the
\* same study identifier at the same time.
C11_OneThreadPerStudy ==
  /\ \A w, v \in Workers :
       (w # v /\ WorkerAN(w) # 0) => WorkerAN(w) # WorkerAN(v)
  /\ \A w \in Workers, k \in 1..MaxManual :
       manual[k] # 0 => manual[k] # WorkerAN(w)
  /\ \A k, j \in 1..MaxManual :
       (k # j /\ manual[k] # 0) => manual[k] # manual[j]

\* q is an initial part of r
IsPrefix(q, r) == Len(q) <= Len(r) /\ \A i \in 1..Len(q) : q[i] = r[i]

\* C13: at most one worker thread per server is alive, a worker has at most
\* one study in flight and it takes the studies of its list strictly in list
\* order; main starts the workers of a new cycle only when no worker of an
\* earlier cycle is alive.
C13_WorkersSequential ==
  /\ [](\A w \in Workers :
          /\ alive[w] <= 1
          /\ IsPrefix(started[w], tlist[w])
          /\ Len(started[w]) = tpos[w] + (IF tst[w] = "inflight" THEN 1 ELSE 0))
  /\ [][(mpc = "fetch" /\ mpc' = "start_hbr") =>
           \A w \in Workers : alive[w] = 0]_mvars

\* a worker thread is alive with the second study of its list in flight
C13_Witness ==
  \E w \in Workers :
     /\ alive[w] = 1 /\ tst[w] = "inflight"
     /\ Len(started[w]) = 2 /\ CurrentAN(w) = tlist[w][2]

\* ------------------------------------------------------------------------
\* Properties of the retention sweep (specification SpecRetention)
\* ------------------------------------------------------------------------
\* the n entries of mt with the oldest modification times
Oldest(mt, n) ==
  {a \in Present(mt) :
     Cardinality({b \in Present(mt) : mt[b] < mt[a]}) < n}

\* the sweep ran on exactly maxExames + 3 records
ThreeInExcess ==
  rpc = "after" /\ Cardinality(Present(jsonMtime0)) = maxExames + 3

RequestFailed ==
  last.attempted /\ last.http \in {"non2xx", "transport"}

\* C15: under PIPELINE_STRICT a transport failure or a non-2xx response
\* during dispatch fails the study: the dispatcher returns ok = False, the
\* record's status is persisted as pipeline_erro, and the worker does not
\* register a success.
C15_StrictDispatchFailureFailsStudy ==
  (cfg.strict /\ RequestFailed) =>
    /\ ~last.ok /\ ~last.hasResponse
    /\ jsStatus = "pipeline_erro"
    /\ ~registered
    /\ (last.site = "baixar_an" => ~baixarRet)

C15_Witness ==
  /\ cfg.strict /\ ppc = "processed" /\ last.site = "worker"
  /\ last.http = "transport" /\ jsStatus = "pipeline_erro" /\ ~registered

\* C16 as stated: without PIPELINE_STRICT a transport failure of the dispatch
\* still ends in a registered success, and an error status is recorded in
\* the study's ProgressRecord.
C16_LenientRecordsErrorStatus ==
  (~cfg.strict /\ ppc = "processed" /\ last.site = "worker"
     /\ last.attempted /\ last.http = "transport") =>
    /\ registered
    /\ jsStatus \in {"pipeline_erro", "pipeline_laudo_erro"}

\* C17 as stated: whenever a request to the endpoint is attempted,
\* pipeline_response.json is written, whatever the outcome (2xx, non-2xx,
\* transport failure or timeout).
C17_ExchangeAlwaysWritten ==
  last.attempted => last.wrote

SortedFiles == Enriched(dicomFiles, DOMAIN dicomFiles)

\* q lists every file once, in non-decreasing key order
IsSortedList(q) ==
  /\ Len(q) = Len(dicomFiles)
  /\ {q[k] : k \in 1..Len(q)} = DOMAIN dicomFiles
  /\ \A k, m \in 1..Len(q) : k < m => KeyBefore(dicomFiles, q[k], q[m])

\* the series of every file when a series is its series UID
SeriesByUid == [i \in DOMAIN dicomFiles |-> <<"uid", dicomFiles[i].uid>>]

\* the series of every file when a series is its series UID and a file
\* without one is a series of its own
SeriesOrOwn ==
  [i \in DOMAIN dicomFiles |->
     IF dicomFiles[i].uid # 0 THEN <<"uid", dicomFiles[i].uid>>
                              ELSE <<"file", i>>]

\* the file the rule picks from the sorted list q: the first file of the
\* second distinct series, else the second file, else the only file
Pick(q, series) ==
  IF \E k \in 2..Len(q) : series[q[k]] # series[q[1]]
    THEN q[CHOOSE k \in 2..Len(q) :
             /\ series[q[k]] # series[q[1]]
             /\ \A m \in 2..(k - 1) : series[q[m]] = series[q[1]]]
    ELSE IF Len(q) >= 2 THEN q[2] ELSE q[1]

\* C19 as stated: of the files sorted by (series number, series UID,
\* instance number, file name) the selector returns the first file of the
\* second distinct series when there are two or more series, else the second
\* file, else the only file; series being told apart by their series UID.
C19_SelectSecondSeries_AsStated ==
  selected # 0 =>
    /\ IsSortedList(SortedFiles)
    /\ selected = Pick(SortedFiles, SeriesByUid)

\* C19 amended: the same rule, where a file whose series UID is empty or
\* cannot be read counts as a series of its own.  For series of sizes 2, 1,
\* 3 with identifiers the selected file is the third of the sorted list.
C19_SelectSecondSeries ==
  selected # 0 =>
    /\ IsSortedList(SortedFiles)
    /\ selected = Pick(SortedFiles, SeriesOrOwn)
    /\ dicomFiles \in ExampleLists => selected = SortedFiles[3]

\* three series of sizes 2, 1, 3: the third file of the sorted list, which
\* is neither the second file of that list nor the third path, is selected
C19_Witness ==
  /\ dicomFiles \in ExampleLists
  /\ selected = SortedFiles[3]
  /\ selected # 3
  /\ dicomFiles[selected].uid = 2

\* ------------------------------------------------------------------------
\* Placement without viewer inbox (specification Spec)
\* ------------------------------------------------------------------------
\* C20: in transient mode, when the viewer inbox is not configured or does
\* not exist, every fetched image has its temporary copy deleted and its
\* placement reported as failed, no image is added to historico, and
\* baixar_an returns False for the study.
C20_NoInboxFailsStudy ==
  (cfg.mode = "transient" /\ cfg.incoming \in {"unset", "missing"}
     /\ pc \in {"consume", "done"}) =>
    /\ \A i \in 1..Len(tasks) :
         /\ result[i] # "ok"
         /\ result[i] = "fail" => files[tasks[i]] # "ok"
         /\ tasks[i] \notin historico
    /\ (pc = "done" /\ Len(tasks) > 0) => ~ret

\* ------------------------------------------------------------------------
\* Terminal outcomes in the record (specification Spec)
\* ------------------------------------------------------------------------
\* the statuses a record carries while its study is being downloaded
InProgressStatuses == {"ativo", "baixando"}

\* C21: when the processing of a study ends, its outcome (complete,
\* incomplete, delivery error) is persisted in the ProgressRecord, so that the
\* record tells a study that ended incomplete from one that is still being
\* downloaded.
C21_OutcomePersisted ==
  (pc = "done" /\ resolved) =>
    /\ record.exists
    /\ record.status \notin InProgressStatuses

\* ------------------------------------------------------------------------
\* The main loop after a stop (specification SpecMain)
\* ------------------------------------------------------------------------
\* C22: once stop() has been called the main loop starts no further fetch
\* cycle and spawns no further worker thread.
C22_NoCycleAfterStop ==
  [][stopEvent =>
       /\ (mpc = "fetch" => mpc' = "fetch")
       /\ \A w \in Workers : alive'[w] <= alive[w]]_vars

\* ------------------------------------------------------------------------
\* A stop during a download (specification SpecCancel)
\* ------------------------------------------------------------------------
\* C23: after stop() is called while a study is being downloaded, no image
\* download of that study that had not yet started is started.
C23_NoImageStartsAfterStop ==
  [][stopEvent => begun' \subseteq begun]_vars

\* ------------------------------------------------------------------------
\* Failures of the retention sweep (specification SpecRetention)
\* ------------------------------------------------------------------------
\* C24: no failure inside verificar_retencao_exames, such as an entry that
\* cannot be removed or that disappears between being listed and being
\* stat'ed, propagates out of it.
C24_RetentionNeverRaises == rpc # "raised"


\* the calls of register_success that have stored their increment
RegStored ==
  Len(rsReturned)
    + Cardinality({w \in Workers : rsPc[w] \in {"counted", "stop_set", "return"}})

\* C25: register_success is atomic. Under every interleaving of the two
\* workers' calls the counter equals the number of calls that have
\* incremented it (so it ends equal to the number of calls), the k-th call to
\* return returns the count k (so every call returns a distinct count), a
\* call reports reached exactly at or beyond the limit and the stop event is
\* set by the time such a call returns, and without a limit (None, 0 or a
\* negative number) register_success never sets the stop event.
C25_RegisterSuccessAtomic ==
  /\ successCount = RegStored
  /\ \A i \in 1..Len(rsReturned) :
       /\ rsReturned[i].count = i
       /\ rsReturned[i].reached = (successLimit > 0 /\ i >= successLimit)
       /\ rsReturned[i].reached => stopEvent /\ pauseEvent
  /\ ((\A w \in Workers : rsPc[w] = "idle") => successCount = Len(rsReturned))
  /\ ((~limitArg.given \/ limitArg.n <= 0) => ~stopEvent)
  /\ (stopEvent => \E w \in Workers : rsCount[w] >= successLimit)

\* both workers have registered, the limit was reached by the second call
\* and a third call returned after it
C25_Witness ==
  /\ successLimit = 2 /\ Len(rsReturned) = 3 /\ stopEvent
  /\ rsReturned[1].by # rsReturned[2].by
  /\ ~rsReturned[1].reached /\ rsReturned[2].reached


\* the record file states C26 speaks of
BrokenKinds == {"missing", "unreadable", "malformed"}

C27_ModeFixedAtStart ==
  [][(InFlight /\ changedIn = calls /\ modeRead \in {"persistent", "pipeline"}
        /\ dirExists) => dirExists']_vars


RECURSIVE DistinctTotal(_)
DistinctTotal(series) ==
  IF series = <<>> THEN 0
  ELSE Cardinality({Head(series).instances[k] :
                      k \in 1..Len(Head(series).instances)})
         + DistinctTotal(Tail(series))

\* C29: every manifest returned has total_instances equal to the sum over
\* its series of the number of distinct image IDs of that series, and
\* total_instances >= 1.
C29_TotalIsDistinctCount ==
  qpc = "returned" =>
    /\ parsed.total_instances = DistinctTotal(parsed.series)
    /\ parsed.total_instances >= 1


\* C30: one call of _baixar_sop issues at most 2 HTTP requests, the second
\* only after the first attempt failed and the fixed backoff was taken, and
\* it reports success only if the file was at the destination with non-zero
\* size and the mode's placement succeeded.
C30_TwoRequestsWithBackoff ==
  /\ requestsSent <= 2
  /\ requestsSent = 2 => backoffs = 1
  /\ (sopPc = "returned" /\ sopRet) => placedOk


\* C31: in one pass of a worker over a study in pipeline mode the endpoint
\* receives at most one request and the report step runs at most once: when
\* the stage inside baixar_an has sent a request (has run the report step),
\* the worker's stage sends none (does not run it again).
C31_OneDispatchPerPass ==
  [][(ppc = "returned" /\ last.site = "baixar_an" /\ last'.site = "worker")
       => /\ ~(last.attempted /\ last'.attempted)
          /\ ~(last.hasResponse /\ last'.hasResponse)]_vars


\* a download thread is running: a batch worker or a manual download
DownloadAlive ==
  \/ \E w \in Workers : alive[w] > 0
  \/ \E k \in 1..MaxManual : manual[k] # 0

\* C32: verificar_retencao_exames runs only at a moment when no download
\* thread is alive, be it called by the cycle (loop.py 532, at the head of
\* the pass that fetches) or from the GUI.
C32_RetentionOnlyWhenIdle ==
  [][((mpc = "fetch" /\ mpc' # "fetch") \/ guiSwept' # guiSwept)
       => ~DownloadAlive]_vars


\* worker w is inside wait_if_paused
InWait(w) == wpc[w] \in {"wait", "wait_stop", "sleep"}

\* C33: stop() never leaves a thread stuck in pause. After stop() every
\* worker thread is eventually out of wait_if_paused for good and
\* terminated; a thread blocked in wait_if_paused returns once resume() has
\* set the pause event, unless the run is paused again first.
C33_NoThreadStuckInPause ==
  /\ stopEvent ~> (\A w \in Workers : wpc[w] = "finished")
  /\ \A w \in Workers :
       (InWait(w) /\ pauseEvent) ~> (~InWait(w) \/ ~pauseEvent)

\* stop() has begun while a worker sleeps inside wait_if_paused
C33_Witness ==
  /\ stopCalled /\ ctlPc = "stopping" /\ ~pauseEvent
  /\ \E w \in Workers : wpc[w] = "sleep"


C35_SummaryPopulated ==
  (pc = "done" /\ resolved /\ cursor = Len(tasks)
     /\ Len(result) >= 2 /\ result[1] = "fail"
     /\ \E i \in 2..Len(result) : result[i] = "ok")
    => record.patient


\* C36 as stated: an exception raised while a worker processes a study is
\* caught and counted and the worker goes on to the next study of its list;
\* it never ends the worker thread.
C36_ExceptionGoesOn_AsStated ==
  [][\A w \in Workers :
       (wpc[w] = "except" /\ wpc'[w] # "except") =>
          /\ wpc'[w] = "loop" /\ idx'[w] = idx[w] + 1
          /\ successCount' = successCount]_vars

\* C36 amended: an exception raised while a worker processes a study is
\* caught; unless its message contains "interpreter shutdown", in which case
\* the worker leaves its loop and ends, it is logged and counted as an error
\* and the worker goes on to the next study. Neither way increments the
\* success counter, which only the register_success call after a successful
\* study does.
C36_ExceptionGoesOnUnlessShutdown ==
  [][/\ \A w \in Workers :
          (wpc[w] = "except" /\ wpc'[w] # "except") =>
             /\ \/ wpc'[w] = "loop" /\ idx'[w] = idx[w] + 1
                \/ wpc'[w] = "finished" /\ idx'[w] = idx[w]
             /\ successCount' = successCount
     /\ successCount' # successCount =>
          \E w \in Workers : wpc[w] = "register" /\ wpc'[w] # "register"
     /\ \A w \in Workers :
          (wpc[w] = "baixar" /\ wpc'[w] # "baixar") =>
             successCount' = successCount]_vars

\* the second study of a worker raised after its first study failed too
C36_Witness ==
  \E w \in Workers :
    /\ wpc[w] = "except" /\ idx[w] = 2 /\ listLen[w] = 2
    /\ successCount = 0 /\ ~stopEvent


\* C37: in transient mode with PIPELINE_ON_TRANSIENT, after a study has
\* downloaded completely, the worker's stage sends a request to the endpoint
\* whenever the API is enabled and configured, the name filter passes and the
\* request format finds what it needs.
C37_TransientStageDispatches ==
  (/\ ppc = "processed" /\ last.site = "worker" /\ baixarRet
   /\ cfg.mode = "transient" /\ PipelineAtivo(cfg) /\ last.ready)
     => last.attempted


\* C38: when the worklist fetch raises, the orchestrator starts no worker for
\* that cycle; without --once it waits and goes back to the head of its loop
\* for a new cycle, with --once it leaves the loop after the failed attempt.
C38_FetchErrorRetriesOrExits ==
  [][(mpc = "except" /\ mpc' # "except") =>
        /\ mpc' = IF once THEN "exited" ELSE "while"
        /\ \A w \in Workers : alive[w] = 0 /\ alive'[w] = 0
        /\ fetched' = fetched]_vars

\* the fetch of a cycle raised, without --once and with no stop requested
C38_Witness ==
  mpc = "except" /\ ~once /\ ~stopEvent /\ guiSwept


\* C39: within one baixar_an invocation, each pass of the consume loop leaves
\* every ID of historico in place, adds the ID of the image just consumed when
\* it was placed and nothing otherwise, and persists that set with baixadas
\* as its size; from one persisted write to the next the record's historico
\* only grows and its baixadas never decreases.
C39_HistoricoOnlyGrows ==
  [][(pc = "consume" /\ cursor' = cursor + 1) =>
        /\ historico \subseteq historico'
        /\ historico' = IF result[cursor + 1] = "ok"
                          THEN historico \cup {tasks[cursor + 1]}
                          ELSE historico
        /\ record'.historico = historico'
        /\ record'.baixadas = Cardinality(historico')
        /\ cursor >= 1 =>
             /\ record.historico \subseteq record'.historico
             /\ record'.baixadas >= record.baixadas]_vars

\* two images were placed and persisted one after the other
C39_Witness ==
  /\ pc = "consume" /\ cursor = 2
  /\ result[1] = "ok" /\ result[2] = "ok"
  /\ historico = {tasks[1], tasks[2]} /\ tasks[1] # tasks[2]
  /\ record.historico = historico /\ record.baixadas = 2

====
